---- MODULE Spec2Model ----
(***************************************************************************)
(* Conversation orchestration pipeline of llm-agent-template:              *)
(* retrieval -> extract actions -> (execute actions) -> generate, the      *)
(* durable action table, the background action processor and the action    *)
(* HTTP routes.                                                            *)
(***************************************************************************)
EXTENDS Integers, Sequences, FiniteSets, TLC

\* ------------------------------------------------------------------ bounds
MaxPreload == 1
MaxApiCalls == 1
MaxBatches == 1
MaxRequests == 2
MaxAdminCalls == 2
MaxCallers == 2
MaxFields == 2
MaxCreated == 2
MaxCacheSize == 2
MaxMessages == 2

\* ------------------------------------------------------- program constants
PENDING == "pending"
IN_PROGRESS == "in_progress"
COMPLETED == "completed"
FAILED == "failed"
CANCELLED == "cancelled"
ActionStatus == {PENDING, IN_PROGRESS, COMPLETED, FAILED, CANCELLED}

BOOK_APPOINTMENT == "book_appointment"
TAKE_NOTE == "take_note"
SET_REMINDER == "set_reminder"
SEARCH_KNOWLEDGE == "search_knowledge"

MAX_HISTORY_LENGTH == 10

\* names of the tools offered to the function-calling model
functionDefinitions == {BOOK_APPOINTMENT, TAKE_NOTE, SET_REMINDER, SEARCH_KNOWLEDGE}

\* dispatch table of the execution stage (no knowledge-search handler)
actionHandlers == {BOOK_APPOINTMENT, TAKE_NOTE, SET_REMINDER}

\* dispatch table of the background action processor
workerActionHandlers == {BOOK_APPOINTMENT, TAKE_NOTE, SET_REMINDER, SEARCH_KNOWLEDGE}

Null == "null"
\* placeholder for "no ConversationState yet"
NoState == [conversationId |-> Null, messages |-> <<>>, context |-> <<>>,
            pending_actions |-> <<>>]
NoResult == [success |-> FALSE, result |-> Null, error |-> Null]

\* fixed reply texts
OrchestratorApology == "I'm sorry, I encountered an error processing your request."
NoHistoryReply == "I don't see any previous messages in our conversation. How can I help you today?"
InvalidLastReply == "I'm having trouble understanding your last message. Could you please try again?"
GenerateApology == "I apologize, but I'm having trouble generating a response right now. Please try again in a moment."
SummaryApology == "I apologize, but I'm having trouble generating a response right now. Please try again."
TimedOutMessage == "Action execution timed out"
UnknownError == "Unknown error"
StoreErrorMessage == "Failed to update action status: Failed to update item in DynamoDB"

\* ------------------------------------------------------------- identifiers
\* `pending_${uuidv4()}` and `act_${uuidv4()}`: the n-th uuid drawn is n
PendingId(n) == [kind |-> "pending", n |-> n]
ActId(n) == [kind |-> "act", n |-> n]

\* /^act_[a-zA-Z0-9-_]+$/
actionIdSchema(id) == id.kind = "act"

\* ---------------------------------------------------------------- messages
Msg(role, content) == [role |-> role, content |-> content]

VARIABLES
  input,         \* the state handed to invoke() (the caller's state between turns)
  graph,         \* the graph variant of the running invocation
  pc,            \* position of the running invocation
  currentState,  \* invoke(): let currentState
  returned,      \* the value invoke() resolved to, NoState while running
  rejected,      \* TRUE when invoke() rejected
  trace,         \* the stages invoked by the running invocation, in order
  uuid,          \* uuids drawn so far
  db,            \* the action-queue table: id -> item
  entry,         \* executeActionsNode: const { pending_actions } = state
  idx,           \* executeActionsNode: position of the for loop in entry
  updatedState,  \* executeActionsNode: let updatedState
  held,          \* executeActionsNode: the handler result or the caught error
  writes,        \* status writes issued by the execution stage in this invocation
  calls,         \* handler invocations of the execution stage in this invocation
  batch,         \* processActions: per action of the batch, the task's position
  batches,       \* processActions calls started
  counters,      \* processActions: succeeded / failed of the running batch
  apiCalls,      \* action route calls served
  io,            \* calls of the pipeline stages to the semantic store, the models
                 \* and createAction in this invocation, in order
  workerCalls,   \* ids of the actions whose handler the worker has invoked
  convTable,     \* the conversation-states table: id -> stored state
  chat,          \* POST /chat: per request, its position and its local states
  admin,         \* answers of GET and DELETE /:conversationId, in order
  cache,         \* module variables of the vector store and the Pinecone client
  callers,       \* createVectorStore: per concurrent caller, its position
  vin,           \* the arguments of the function applied (validateActionData, save)
  vout,          \* the value it returned (validateActionData, load)
  embeddingsCache \* the EmbeddingsCache: maxSize, the Map in insertion order, the last call

vars == <<input, graph, pc, currentState, returned, rejected, trace, uuid,
          db, entry, idx, updatedState, held, writes, calls, batch, batches,
          counters, apiCalls, io, workerCalls, convTable, chat, admin, cache,
          callers, vin, vout, embeddingsCache>>

pipelineVars == <<input, graph, pc, currentState, returned, rejected, trace>>
execVars == <<entry, idx, updatedState, held, writes, calls>>
workerVars == <<batch, batches, counters, workerCalls>>
chatVars == <<convTable, chat, admin>>
cacheVars == <<cache, callers>>
validateVars == <<vin, vout>>
embedVars == <<embeddingsCache>>
auxVars == <<chatVars, cacheVars, validateVars, embedVars>>
coreVars == <<pipelineVars, execVars, workerVars, uuid, db, apiCalls, io>>

\* ------------------------------------------------------------ state helpers
\* variant: getLastMessage, the last message whatever its role
LastMessageIndex(messages) == Len(messages)

\* getLastHumanMessage: index of the last human message, 0 when there is none
LastHumanIndex(messages) ==
  LET S == {i \in 1..Len(messages) : messages[i].role = "human"}
  IN IF S = {} THEN 0 ELSE CHOOSE i \in S : \A j \in S : j <= i

\* `!lastMessage || !lastMessage.content`
NoHumanQuery(state) ==
  \/ LastHumanIndex(state.messages) = 0
  \/ state.messages[LastHumanIndex(state.messages)].content = ""

\* variant: the id comparison is missing, every action takes the update
updateActionAll(state, actionId, status) ==
  [state EXCEPT !.pending_actions =
     [k \in 1..Len(state.pending_actions) |->
        [state.pending_actions[k] EXCEPT !.status = status]]]

\* updateAction(state, actionId, { status })
updateAction(state, actionId, status) ==
  [state EXCEPT !.pending_actions =
     [k \in 1..Len(state.pending_actions) |->
        IF state.pending_actions[k].id = actionId
        THEN [state.pending_actions[k] EXCEPT !.status = status]
        ELSE state.pending_actions[k]]]

addHumanMessage(state, content) ==
  IF content = "" THEN state
  ELSE [state EXCEPT !.messages = Append(@, Msg("human", content))]

\* `!content || content.trim() === ""`
IsBlank(content) == content \in {"", "  "}

addAIMessage(state, content) ==
  IF IsBlank(content) THEN state
  ELSE [state EXCEPT !.messages = Append(@, Msg("ai", content))]

\* getMessageHistory(state, limit): the last `limit` messages
getMessageHistory(state, limit) ==
  IF Len(state.messages) <= limit THEN state.messages
  ELSE SubSeq(state.messages, Len(state.messages) - limit + 1, Len(state.messages))

\* variant: the fallback state starts a new message list with the apology
createFallbackResponseFresh(state) ==
  [state EXCEPT !.messages = <<Msg("ai", OrchestratorApology)>>]

createFallbackResponse(state) ==
  [state EXCEPT !.messages = Append(@, Msg("ai", OrchestratorApology))]

\* ----------------------------------------------------------- action table
HasItem(table, id) == id \in DOMAIN table

\* variant: createAction resolves although the item was not written
PutActionLost(table, id, type, data) == table

\* createAction: putItem of a full item with status pending
PutAction(table, id, type, data) ==
  (id :> [type |-> type, data |-> data, status |-> PENDING,
          result |-> Null, error |-> Null]) @@ table

\* updateActionStatus: UpdateCommand SET status, result, error; DynamoDB
\* creates the item when the key does not exist
updateActionStatus(table, id, status, result, error) ==
  IF HasItem(table, id)
  THEN [table EXCEPT ![id] = [@ EXCEPT !.status = status, !.result = result,
                                       !.error = error]]
  ELSE (id :> [type |-> Null, data |-> Null, status |-> status,
               result |-> result, error |-> error]) @@ table

\* getPendingActions: scan with status = pending
getPendingActions(table) == {id \in DOMAIN table : table[id].status = PENDING}

\* ---------------------------------------------------------- initial states
InitialMessages ==
  { <<>>, <<Msg("system", "sys")>>, <<Msg("human", "hi")>> }

\* an action carried over in the loaded conversation state
Carried(type, status) == [type |-> type, status |-> status]
CarriedActions ==
  { Carried(BOOK_APPOINTMENT, PENDING), Carried(SEARCH_KNOWLEDGE, PENDING),
    Carried(BOOK_APPOINTMENT, IN_PROGRESS), Carried(SEARCH_KNOWLEDGE, COMPLETED),
    Carried(BOOK_APPOINTMENT, FAILED), Carried(SEARCH_KNOWLEDGE, CANCELLED) }

\* pending_actions of the loaded state: up to MaxPreload actions, the k-th
\* with the k-th uuid
PreloadedActions ==
  UNION { { [k \in 1..n |-> [id |-> PendingId(k), type |-> c[k].type, data |-> "args",
                             status |-> c[k].status]] : c \in [1..n -> CarriedActions] }
          : n \in 0..MaxPreload }

\* context of the loaded state: empty, or the chunks of an earlier turn
InitialContexts == { <<>>, <<[k |-> 1, content |-> "old doc"]>> }

InitialInputs ==
  { [conversationId |-> "conv_1", messages |-> m, context |-> c,
     pending_actions |-> p] :
       m \in InitialMessages, c \in InitialContexts, p \in PreloadedActions }

Idle ==
  /\ graph = "none"
  /\ pc = "idle"
  /\ currentState = NoState
  /\ returned = NoState
  /\ rejected = FALSE
  /\ trace = <<>>
  /\ uuid = MaxPreload
  /\ db = <<>>
  /\ entry = <<>>
  /\ idx = 0
  /\ updatedState = NoState
  /\ held = NoResult
  /\ writes = <<>>
  /\ calls = <<>>
  /\ batch = <<>>
  /\ batches = 0
  /\ counters = [succeeded |-> 0, failed |-> 0]
  /\ apiCalls = 0
  /\ io = <<>>
  /\ workerCalls = {}

\* no chat request, no client construction and no validation call is under way
ChatIdle == convTable = <<>> /\ chat = <<>> /\ admin = <<>>
CacheIdle ==
  /\ cache = [vectorStoreCache |-> 0, pineconeIndex |-> 0, pineconeInstance |-> 0,
               stores |-> 0, indexes |-> 0, clients |-> 0]
  /\ callers = <<>>
ValidateIdle == vin = <<>> /\ vout = <<>>
\* no EmbeddingsCache under test
NoCacheCall == [op |-> "none", text |-> ""]
EmbedIdle == embeddingsCache = [maxSize |-> 0, cache |-> <<>>, call |-> NoCacheCall]

Init ==
  /\ input \in InitialInputs
  /\ Idle
  /\ ChatIdle
  /\ CacheIdle
  /\ ValidateIdle
  /\ EmbedIdle

\* a fresh conversation whose first message is the user's
InitStore ==
  /\ input = [conversationId |-> "conv_1", messages |-> <<Msg("human", "hi")>>,
              context |-> <<>>, pending_actions |-> <<>>]
  /\ Idle
  /\ ChatIdle
  /\ CacheIdle
  /\ ValidateIdle
  /\ EmbedIdle

\* ------------------------------------------------------------ orchestrator
GraphVariants == {"minimal", "rag", "linear", "conditional"}

FirstStage(g) == IF g = "minimal" THEN "generate" ELSE "retrieval"

\* variant: the conditional graph goes to plain generation whatever was extracted
BranchAlwaysGenerate(state) == "generate"

\* createAdvancedConversationGraph: if (currentState.pending_actions.length > 0)
BranchAfterExtract(state) ==
  IF Len(state.pending_actions) > 0 THEN "execute" ELSE "generate"

\* the stage that follows `stage` in graph g, "done" after the last one
NextStage(g, stage, state) ==
  CASE stage = "retrieval" -> IF g = "rag" THEN "generate" ELSE "extract"
    [] stage = "extract" -> IF g = "linear" THEN "execute" ELSE BranchAfterExtract(state)
    [] stage = "execute" -> "generate_summary"
    [] OTHER -> "done"

\* variant: the stage's result is dropped, the next stage gets the old state
StageReturnsDropsState(stage, state) ==
  /\ currentState' = currentState
  /\ pc' = NextStage(graph, stage, state)
  /\ returned' = IF NextStage(graph, stage, state) = "done" THEN currentState ELSE returned
  /\ UNCHANGED <<input, graph, rejected>>

\* a stage returned `state` to invoke()
StageReturns(stage, state) ==
  /\ currentState' = state
  /\ pc' = NextStage(graph, stage, state)
  /\ returned' = IF NextStage(graph, stage, state) = "done" THEN state ELSE returned
  /\ UNCHANGED <<input, graph, rejected>>

\* variant: the catch block of invoke() lets the error escape
OrchestratorRethrows ==
  /\ rejected' = TRUE
  /\ pc' = "done"
  /\ UNCHANGED <<input, graph, currentState, returned>>

\* invoke(): catch (error) { return createFallbackResponse(state) }
OrchestratorCatch ==
  /\ returned' = createFallbackResponse(input)
  /\ pc' = "done"
  /\ UNCHANGED <<input, graph, currentState, rejected>>

\* graph.invoke(state): let currentState = state
Invoke(g) ==
  /\ pc = "idle"
  /\ graph' = g
  /\ currentState' = input
  /\ pc' = FirstStage(g)
  /\ UNCHANGED <<input, returned, rejected, trace, uuid, db, apiCalls, io>>
  /\ UNCHANGED execVars
  /\ UNCHANGED workerVars
  /\ UNCHANGED auxVars

\* --------------------------------------------------------------- retrieval
QueryResults ==
  { [ok |-> FALSE, docs |-> <<>>], [ok |-> TRUE, docs |-> <<>>],
    [ok |-> TRUE, docs |-> <<"doc A", "doc B">>] }

\* variant: chunks numbered from 0
FormatContextZeroBased(docs) == [i \in 1..Len(docs) |-> [k |-> i - 1, content |-> docs[i]]]

\* `[${i + 1}] ${chunk.content}`
FormatContext(docs) == [i \in 1..Len(docs) |-> [k |-> i, content |-> docs[i]]]

\* variant: the catch block returns the state as it came in
retrievalNodeKeepsOnError(state, q) ==
  IF NoHumanQuery(state) THEN state
  ELSE IF ~q.ok THEN state
  ELSE IF Len(q.docs) = 0 THEN [state EXCEPT !.context = <<>>]
  ELSE [state EXCEPT !.context = FormatContext(q.docs)]

retrievalNode(state, q) ==
  IF NoHumanQuery(state) THEN state
  ELSE IF ~q.ok THEN [state EXCEPT !.context = <<>>]
  ELSE IF Len(q.docs) = 0 THEN [state EXCEPT !.context = <<>>]
  ELSE [state EXCEPT !.context = FormatContext(q.docs)]

\* await querySimilarDocuments(query, DEFAULT_RETRIEVAL_LIMIT)
QueryCall(q) == [to |-> "semantic_store", ok |-> q.ok, docs |-> q.docs]

Retrieval ==
  /\ pc = "retrieval"
  /\ trace' = Append(trace, "retrieval")
  /\ IF NoHumanQuery(currentState)
     THEN /\ io' = io
          /\ StageReturns("retrieval", currentState)
     ELSE \E q \in QueryResults :
            /\ io' = Append(io, QueryCall(q))
            /\ StageReturns("retrieval", retrievalNode(currentState, q))
  /\ UNCHANGED <<uuid, db, apiCalls>>
  /\ UNCHANGED execVars
  /\ UNCHANGED workerVars
  /\ UNCHANGED auxVars

\* -------------------------------------------------------------- extraction
NoCall == [name |-> Null, arguments |-> Null]
ToolCall(type, name, arguments) == [type |-> type, name |-> name, arguments |-> arguments]

\* responses of the function-calling model (ok = FALSE: the call rejects)
ExtractionResponses ==
  { [ok |-> FALSE, tool_calls |-> <<>>, function_call |-> NoCall],
    [ok |-> TRUE, tool_calls |-> <<>>, function_call |-> NoCall],
    [ok |-> TRUE, tool_calls |-> <<ToolCall("function", BOOK_APPOINTMENT, "valid")>>,
     function_call |-> NoCall],
    [ok |-> TRUE, tool_calls |-> <<ToolCall("function", SEARCH_KNOWLEDGE, "valid")>>,
     function_call |-> NoCall],
    [ok |-> TRUE, tool_calls |-> <<ToolCall("function", BOOK_APPOINTMENT, "invalid")>>,
     function_call |-> NoCall],
    [ok |-> TRUE, tool_calls |-> <<ToolCall("function", BOOK_APPOINTMENT, "unparseable")>>,
     function_call |-> NoCall],
    [ok |-> TRUE, tool_calls |-> <<ToolCall("function", "unknown_tool", "valid")>>,
     function_call |-> NoCall],
    [ok |-> TRUE, tool_calls |-> <<ToolCall("function", BOOK_APPOINTMENT, "valid"),
                                    ToolCall("function", TAKE_NOTE, "valid")>>,
     function_call |-> NoCall],
    [ok |-> TRUE, tool_calls |-> <<ToolCall("other", BOOK_APPOINTMENT, "valid")>>,
     function_call |-> NoCall],
    [ok |-> TRUE, tool_calls |-> <<>>,
     function_call |-> [name |-> SET_REMINDER, arguments |-> "valid"]] }

\* the first tool call if it is a function, else the legacy function_call
ExtractedAction(response) ==
  IF Len(response.tool_calls) > 0
  THEN IF response.tool_calls[1].type = "function"
       THEN [name |-> response.tool_calls[1].name,
             arguments |-> response.tool_calls[1].arguments]
       ELSE NoCall
  ELSE response.function_call

\* JSON.parse of the argument string
JsonParses(arguments) == arguments # "unparseable"
JsonParse(arguments) == IF arguments = "valid" THEN "args" ELSE "bad_args"

\* variant: only the tool name is checked, the parsed data is taken as it is
validateActionDataNameOnly(type, data) == type \in functionDefinitions

validateActionData(type, data) == type \in functionDefinitions /\ data = "args"

\* extractActionsNode appends { id, type, data, status: pending }
NewPendingAction(id, type, data) ==
  [id |-> id, type |-> type, data |-> data, status |-> PENDING]

\* await functionCallingModel.invoke([...])
ModelCall(response) == [to |-> "extraction_model", ok |-> response.ok, response |-> response]

\* await createAction(conversationId, type, data)
CreateCall(id, created) == [to |-> "createAction", ok |-> created, id |-> id]

\* variant: one PendingAction per tool call of the response instead of the first only
ExtractActionsEveryToolCall ==
  /\ pc = "extract"
  /\ trace' = Append(trace, "extract")
  /\ IF NoHumanQuery(currentState)
     THEN /\ io' = io
          /\ StageReturns("extract", currentState)
          /\ UNCHANGED <<uuid, db>>
     ELSE \E response \in ExtractionResponses, created \in BOOLEAN :
       LET extracted == ExtractedAction(response) IN
       IF \/ ~response.ok
          \/ extracted = NoCall
          \/ ~JsonParses(extracted.arguments)
          \/ ~validateActionData(extracted.name, JsonParse(extracted.arguments))
       THEN /\ io' = Append(io, ModelCall(response))
            /\ StageReturns("extract", currentState)
            /\ UNCHANGED <<uuid, db>>
       ELSE \* uuids: one for the local id, one inside createAction
            /\ uuid' = uuid + 2 + Len(response.tool_calls)
            /\ io' = io \o <<ModelCall(response), CreateCall(ActId(uuid + 2), created)>>
            /\ IF created
               THEN /\ db' = PutAction(db, ActId(uuid + 2), extracted.name,
                                       JsonParse(extracted.arguments))
                    /\ StageReturns("extract",
                         [currentState EXCEPT !.pending_actions =
                            Append(@, NewPendingAction(PendingId(uuid + 1), extracted.name,
                                                       JsonParse(extracted.arguments)))
                            \o [k \in 1..(Len(response.tool_calls) - 1) |->
                                  NewPendingAction(PendingId(uuid + 2 + k),
                                                   response.tool_calls[k + 1].name,
                                                   JsonParse(response.tool_calls[k + 1].arguments))]])
               ELSE /\ db' = db
                    /\ StageReturns("extract", currentState)
  /\ UNCHANGED apiCalls
  /\ UNCHANGED execVars
  /\ UNCHANGED workerVars
  /\ UNCHANGED auxVars

ExtractActions ==
  /\ pc = "extract"
  /\ trace' = Append(trace, "extract")
  /\ IF NoHumanQuery(currentState)
     THEN /\ io' = io
          /\ StageReturns("extract", currentState)
          /\ UNCHANGED <<uuid, db>>
     ELSE \E response \in ExtractionResponses, created \in BOOLEAN :
       LET extracted == ExtractedAction(response) IN
       IF \/ ~response.ok
          \/ extracted = NoCall
          \/ ~JsonParses(extracted.arguments)
          \/ ~validateActionData(extracted.name, JsonParse(extracted.arguments))
       THEN /\ io' = Append(io, ModelCall(response))
            /\ StageReturns("extract", currentState)
            /\ UNCHANGED <<uuid, db>>
       ELSE \* uuids: one for the local id, one inside createAction
            /\ uuid' = uuid + 2
            /\ io' = io \o <<ModelCall(response), CreateCall(ActId(uuid + 2), created)>>
            /\ IF created
               THEN /\ db' = PutAction(db, ActId(uuid + 2), extracted.name,
                                       JsonParse(extracted.arguments))
                    /\ StageReturns("extract",
                         [currentState EXCEPT !.pending_actions =
                            Append(@, NewPendingAction(PendingId(uuid + 1), extracted.name,
                                                       JsonParse(extracted.arguments)))])
               ELSE /\ db' = db
                    /\ StageReturns("extract", currentState)
  /\ UNCHANGED apiCalls
  /\ UNCHANGED execVars
  /\ UNCHANGED workerVars
  /\ UNCHANGED auxVars

\* -------------------------------------------------------------- generation
ChatOutputs ==
  { [ok |-> FALSE, content |-> ""], [ok |-> TRUE, content |-> "reply"],
    [ok |-> TRUE, content |-> ""], [ok |-> TRUE, content |-> "  "] }

\* await chain.invoke(input)
ChatCall(out) == [to |-> "chat_model", ok |-> out.ok, content |-> out.content]

\* generateResponseNode reaches the model call: the window is not empty and
\* its last message has content
GenerateCallsModel(state) ==
  LET history == getMessageHistory(state, MAX_HISTORY_LENGTH) IN
  IF Len(history) = 0 THEN FALSE ELSE history[Len(history)].content # ""

\* generateResponseWithActionSummaryNode reaches the model call unless
\* history[history.length - 1] is undefined
SummaryCallsModel(state) == Len(getMessageHistory(state, MAX_HISTORY_LENGTH)) > 0

\* the stage returned before the model call
NoOutput == [ok |-> FALSE, content |-> ""]

\* variant: the catch block returns the state without an apology
generateResponseNodeSilent(state, out) ==
  LET history == getMessageHistory(state, MAX_HISTORY_LENGTH) IN
  IF Len(history) = 0 THEN addAIMessage(state, NoHistoryReply)
  ELSE IF history[Len(history)].content = "" THEN addAIMessage(state, InvalidLastReply)
  ELSE IF out.ok THEN addAIMessage(state, out.content)
  ELSE state

generateResponseNode(state, out) ==
  LET history == getMessageHistory(state, MAX_HISTORY_LENGTH) IN
  IF Len(history) = 0 THEN addAIMessage(state, NoHistoryReply)
  ELSE IF history[Len(history)].content = "" THEN addAIMessage(state, InvalidLastReply)
  ELSE IF out.ok THEN addAIMessage(state, out.content)
  ELSE addAIMessage(state, GenerateApology)

\* history[history.length - 1].content throws on an empty window: caught
generateResponseWithActionSummaryNode(state, out) ==
  LET history == getMessageHistory(state, MAX_HISTORY_LENGTH) IN
  IF Len(history) = 0 THEN addAIMessage(state, SummaryApology)
  ELSE IF out.ok THEN addAIMessage(state, out.content)
  ELSE addAIMessage(state, SummaryApology)

Generate ==
  /\ pc = "generate"
  /\ trace' = Append(trace, "generate")
  /\ IF GenerateCallsModel(currentState)
     THEN \E out \in ChatOutputs :
            /\ io' = Append(io, ChatCall(out))
            /\ StageReturns("generate", generateResponseNode(currentState, out))
     ELSE /\ io' = io
          /\ StageReturns("generate", generateResponseNode(currentState, NoOutput))
  /\ UNCHANGED <<uuid, db, apiCalls>>
  /\ UNCHANGED execVars
  /\ UNCHANGED workerVars
  /\ UNCHANGED auxVars

GenerateWithSummary ==
  /\ pc = "generate_summary"
  /\ trace' = Append(trace, "generate_summary")
  /\ IF SummaryCallsModel(currentState)
     THEN \E out \in ChatOutputs :
            /\ io' = Append(io, ChatCall(out))
            /\ StageReturns("generate_summary",
                            generateResponseWithActionSummaryNode(currentState, out))
     ELSE /\ io' = io
          /\ StageReturns("generate_summary",
                          generateResponseWithActionSummaryNode(currentState, NoOutput))
  /\ UNCHANGED <<uuid, db, apiCalls>>
  /\ UNCHANGED execVars
  /\ UNCHANGED workerVars
  /\ UNCHANGED auxVars

\* --------------------------------------------------------- execution stage
HandlerOutcomes == {"ok", "fail", "fail_noerr", "throw", "timeout"}

\* what `await Promise.race([handler(action), timeoutPromise])` yields
HandlerResult(outcome) ==
  CASE outcome = "ok" -> [success |-> TRUE, result |-> "result", error |-> Null]
    [] outcome = "fail" -> [success |-> FALSE, result |-> Null, error |-> "handler error"]
    [] outcome = "fail_noerr" -> [success |-> FALSE, result |-> Null, error |-> Null]
    [] outcome = "throw" -> [success |-> FALSE, result |-> Null, error |-> "handler threw"]
    [] OTHER -> [success |-> FALSE, result |-> Null, error |-> TimedOutMessage]

\* the race rejects: handler threw or the timeout fired first
RaceRejects(outcome) == outcome \in {"throw", "timeout"}

\* `x || "Unknown error"`
OrUnknown(error) == IF error = Null \/ error = "" THEN UnknownError ELSE error

\* `No handler for action type: ${action.type}`
NoHandlerError(type) ==
  CASE type = SEARCH_KNOWLEDGE -> "No handler for action type: search_knowledge"
    [] type = BOOK_APPOINTMENT -> "No handler for action type: book_appointment"
    [] type = TAKE_NOTE -> "No handler for action type: take_note"
    [] type = SET_REMINDER -> "No handler for action type: set_reminder"
    [] OTHER -> "No handler for action type: (other)"

Write(id, status, error, ok) == [id |-> id, status |-> status, error |-> error, ok |-> ok]

\* const handler = actionHandlers[action.type]
HasHandler(action) == action.type \in actionHandlers

\* for (const action of pending_actions): the position moves on
ExecContinue ==
  /\ idx' = idx + 1
  /\ pc' = "exec_loop"
  /\ UNCHANGED <<input, graph, currentState, returned, rejected>>

ExecStep(next) ==
  /\ pc' = next
  /\ UNCHANGED <<input, graph, currentState, returned, rejected, idx>>

\* variant: the copy keeps only the actions still pending
ExecEnterPendingOnly ==
  /\ pc = "execute"
  /\ trace' = Append(trace, "execute")
  /\ IF Len(currentState.pending_actions) = 0
     THEN /\ StageReturns("execute", currentState)
          /\ UNCHANGED <<entry, idx, updatedState>>
     ELSE /\ entry' = currentState.pending_actions
          /\ updatedState' = [currentState EXCEPT !.pending_actions =
                                 SelectSeq(@, LAMBDA a : a.status = PENDING)]
          /\ idx' = 1
          /\ pc' = "exec_loop"
          /\ UNCHANGED <<input, graph, currentState, returned, rejected>>
  /\ UNCHANGED <<held, writes, calls, uuid, db, apiCalls, io>>
  /\ UNCHANGED workerVars
  /\ UNCHANGED auxVars

\* executeActionsNode entry: skip on an empty list, else copy the state
ExecEnter ==
  /\ pc = "execute"
  /\ trace' = Append(trace, "execute")
  /\ IF Len(currentState.pending_actions) = 0
     THEN /\ StageReturns("execute", currentState)
          /\ UNCHANGED <<entry, idx, updatedState>>
     ELSE /\ entry' = currentState.pending_actions
          /\ updatedState' = currentState
          /\ idx' = 1
          /\ pc' = "exec_loop"
          /\ UNCHANGED <<input, graph, currentState, returned, rejected>>
  /\ UNCHANGED <<held, writes, calls, uuid, db, apiCalls, io>>
  /\ UNCHANGED workerVars
  /\ UNCHANGED auxVars

\* loop head: end of list, skip of a non-pending action, or dispatch
ExecLoop ==
  /\ pc = "exec_loop"
  /\ IF idx > Len(entry)
     THEN /\ StageReturns("execute", updatedState)
          /\ UNCHANGED <<idx, updatedState>>
     ELSE IF entry[idx].status # PENDING
     THEN /\ ExecContinue
          /\ UNCHANGED updatedState
     ELSE IF ~HasHandler(entry[idx])
     THEN /\ updatedState' = updateAction(updatedState, entry[idx].id, FAILED)
          /\ ExecStep("exec_nohandler")
     ELSE /\ updatedState' = updateAction(updatedState, entry[idx].id, IN_PROGRESS)
          /\ ExecStep("exec_mark_in_progress")
  /\ UNCHANGED <<entry, held, writes, calls, trace, uuid, db, apiCalls, io>>
  /\ UNCHANGED workerVars
  /\ UNCHANGED auxVars

\* await markActionFailed(action.id, `No handler ...`) outside any try
ExecNoHandler ==
  /\ pc = "exec_nohandler"
  /\ \E ok \in BOOLEAN :
       /\ writes' = Append(writes, Write(entry[idx].id, FAILED,
                                         NoHandlerError(entry[idx].type), ok))
       /\ IF ok
          THEN /\ db' = updateActionStatus(db, entry[idx].id, FAILED, Null,
                                           NoHandlerError(entry[idx].type))
               /\ ExecContinue
          ELSE /\ db' = db
               /\ OrchestratorCatch
               /\ UNCHANGED idx
  /\ UNCHANGED <<entry, updatedState, held, calls, trace, uuid, apiCalls, io>>
  /\ UNCHANGED workerVars
  /\ UNCHANGED auxVars

\* variant: a rejected in_progress write is swallowed and the handler runs
ExecMarkInProgressSwallowed ==
  /\ pc = "exec_mark_in_progress"
  /\ \E ok \in BOOLEAN :
       /\ writes' = Append(writes, Write(entry[idx].id, IN_PROGRESS, Null, ok))
       /\ db' = IF ok THEN updateActionStatus(db, entry[idx].id, IN_PROGRESS, Null, Null)
                ELSE db
       /\ ExecStep("exec_handler")
       /\ UNCHANGED held
  /\ UNCHANGED <<entry, updatedState, calls, trace, uuid, apiCalls, io>>
  /\ UNCHANGED workerVars
  /\ UNCHANGED auxVars

\* await markActionInProgress(action.id) inside the try
ExecMarkInProgress ==
  /\ pc = "exec_mark_in_progress"
  /\ \E ok \in BOOLEAN :
       /\ writes' = Append(writes, Write(entry[idx].id, IN_PROGRESS, Null, ok))
       /\ IF ok
          THEN /\ db' = updateActionStatus(db, entry[idx].id, IN_PROGRESS, Null, Null)
               /\ ExecStep("exec_handler")
               /\ UNCHANGED held
          ELSE /\ db' = db
               /\ held' = [success |-> FALSE, result |-> Null, error |-> StoreErrorMessage]
               /\ ExecStep("exec_catch")
  /\ UNCHANGED <<entry, updatedState, calls, trace, uuid, apiCalls, io>>
  /\ UNCHANGED workerVars
  /\ UNCHANGED auxVars

\* a handler invocation; after a timeout the handler promise is still running
HandlerCall(id, outcome) ==
  [id |-> id, outcome |-> outcome,
   late |-> IF outcome = "timeout" THEN "running" ELSE "none"]

\* handler(action) raced against the timeout, then the in-state update
ExecHandler ==
  /\ pc = "exec_handler"
  /\ \E outcome \in HandlerOutcomes :
       /\ calls' = Append(calls, HandlerCall(entry[idx].id, outcome))
       /\ held' = HandlerResult(outcome)
       /\ IF RaceRejects(outcome)
          THEN /\ ExecStep("exec_catch")
               /\ UNCHANGED updatedState
          ELSE IF HandlerResult(outcome).success
          THEN /\ updatedState' = updateAction(updatedState, entry[idx].id, COMPLETED)
               /\ ExecStep("exec_mark_completed")
          ELSE /\ updatedState' = updateAction(updatedState, entry[idx].id, FAILED)
               /\ ExecStep("exec_mark_failed")
  /\ UNCHANGED <<entry, writes, trace, uuid, db, apiCalls, io>>
  /\ UNCHANGED workerVars
  /\ UNCHANGED auxVars

\* await markActionCompleted(action.id, result.result)
ExecMarkCompleted ==
  /\ pc = "exec_mark_completed"
  /\ \E ok \in BOOLEAN :
       /\ writes' = Append(writes, Write(entry[idx].id, COMPLETED, Null, ok))
       /\ IF ok
          THEN /\ db' = updateActionStatus(db, entry[idx].id, COMPLETED, held.result, Null)
               /\ ExecContinue
               /\ UNCHANGED held
          ELSE /\ db' = db
               /\ held' = [success |-> FALSE, result |-> Null, error |-> StoreErrorMessage]
               /\ ExecStep("exec_catch")
  /\ UNCHANGED <<entry, updatedState, calls, trace, uuid, apiCalls, io>>
  /\ UNCHANGED workerVars
  /\ UNCHANGED auxVars

\* await markActionFailed(action.id, result.error || "Unknown error")
ExecMarkFailed ==
  /\ pc = "exec_mark_failed"
  /\ \E ok \in BOOLEAN :
       /\ writes' = Append(writes, Write(entry[idx].id, FAILED, OrUnknown(held.error), ok))
       /\ IF ok
          THEN /\ db' = updateActionStatus(db, entry[idx].id, FAILED, Null,
                                           OrUnknown(held.error))
               /\ ExecContinue
               /\ UNCHANGED held
          ELSE /\ db' = db
               /\ held' = [success |-> FALSE, result |-> Null, error |-> StoreErrorMessage]
               /\ ExecStep("exec_catch")
  /\ UNCHANGED <<entry, updatedState, calls, trace, uuid, apiCalls, io>>
  /\ UNCHANGED workerVars
  /\ UNCHANGED auxVars

\* variant: the catch block leaves the loop after recording the failure
ExecCatchBreaks ==
  /\ pc = "exec_catch"
  /\ updatedState' = updateAction(updatedState, entry[idx].id, FAILED)
  /\ \E ok \in BOOLEAN :
       /\ writes' = Append(writes, Write(entry[idx].id, FAILED, OrUnknown(held.error), ok))
       /\ IF ok
          THEN /\ db' = updateActionStatus(db, entry[idx].id, FAILED, Null,
                                           OrUnknown(held.error))
               /\ idx' = Len(entry) + 1
               /\ pc' = "exec_loop"
               /\ UNCHANGED <<input, graph, currentState, returned, rejected>>
          ELSE /\ db' = db
               /\ OrchestratorCatch
               /\ UNCHANGED idx
  /\ UNCHANGED <<entry, held, calls, trace, uuid, apiCalls, io>>
  /\ UNCHANGED workerVars
  /\ UNCHANGED auxVars

\* catch (error): in-state failed, then await markActionFailed outside any try
ExecCatch ==
  /\ pc = "exec_catch"
  /\ updatedState' = updateAction(updatedState, entry[idx].id, FAILED)
  /\ \E ok \in BOOLEAN :
       /\ writes' = Append(writes, Write(entry[idx].id, FAILED, OrUnknown(held.error), ok))
       /\ IF ok
          THEN /\ db' = updateActionStatus(db, entry[idx].id, FAILED, Null,
                                           OrUnknown(held.error))
               /\ ExecContinue
          ELSE /\ db' = db
               /\ OrchestratorCatch
               /\ UNCHANGED idx
  /\ UNCHANGED <<entry, held, calls, trace, uuid, apiCalls, io>>
  /\ UNCHANGED workerVars
  /\ UNCHANGED auxVars

\* how the handler of a timed-out action settles in the end
LateOutcomes == {"ok", "fail"}

\* the handler promise of a timed-out action settles after the race was lost:
\* Promise.race has settled already and nothing else awaits the promise
HandlerSettlesLate ==
  /\ \E i \in DOMAIN calls, late \in LateOutcomes :
       /\ calls[i].late = "running"
       /\ calls' = [calls EXCEPT ![i].late = late]
  /\ UNCHANGED <<entry, idx, updatedState, held, writes>>
  /\ UNCHANGED pipelineVars
  /\ UNCHANGED workerVars
  /\ UNCHANGED auxVars
  /\ UNCHANGED <<uuid, db, apiCalls, io>>

\* ------------------------------------------------- background action worker
Task(at, error) == [at |-> at, error |-> error]
Settled(task) == task.at \in {"succeeded", "failed", "rejected"}

WorkerFrame ==
  /\ UNCHANGED auxVars
  /\ UNCHANGED pipelineVars
  /\ UNCHANGED execVars
  /\ UNCHANGED <<trace, uuid, apiCalls, io>>

\* processActions: getPendingActions, then one task per action (Promise.all)
WorkerScan ==
  /\ batches < MaxBatches
  /\ DOMAIN batch = {}
  /\ batches' = batches + 1
  /\ batch' = [id \in getPendingActions(db) |-> Task("start", Null)]
  /\ counters' = [succeeded |-> 0, failed |-> 0]
  /\ db' = db
  /\ UNCHANGED workerCalls
  /\ WorkerFrame

\* variant: failed++ runs on entering the catch block and again after its write
WorkerTaskStepCountsCatch(id, at, error) ==
  /\ batch' = [batch EXCEPT ![id] = Task(at, error)]
  /\ counters' = IF at = "succeeded" THEN [counters EXCEPT !.succeeded = @ + 1]
                 ELSE IF at \in {"failed", "catch"} THEN [counters EXCEPT !.failed = @ + 1]
                 ELSE counters
  /\ workerCalls' = IF batch[id].at = "handler" THEN workerCalls \cup {id} ELSE workerCalls
  /\ UNCHANGED batches

WorkerTaskStep(id, at, error) ==
  /\ batch' = [batch EXCEPT ![id] = Task(at, error)]
  /\ counters' = IF at = "succeeded" THEN [counters EXCEPT !.succeeded = @ + 1]
                 ELSE IF at = "failed" THEN [counters EXCEPT !.failed = @ + 1]
                 ELSE counters
  /\ workerCalls' = IF batch[id].at = "handler" THEN workerCalls \cup {id} ELSE workerCalls
  /\ UNCHANGED batches

\* handler lookup, then markActionFailed (no handler) or markActionInProgress
WorkerDispatch(id) ==
  /\ id \in DOMAIN batch
  /\ batch[id].at = "start"
  /\ \E ok \in BOOLEAN :
       IF db[id].type \notin workerActionHandlers
       THEN IF ok
            THEN /\ db' = updateActionStatus(db, id, FAILED, Null, NoHandlerError(db[id].type))
                 /\ WorkerTaskStep(id, "failed", Null)
            ELSE /\ db' = db
                 /\ WorkerTaskStep(id, "catch", StoreErrorMessage)
       ELSE IF ok
            THEN /\ db' = updateActionStatus(db, id, IN_PROGRESS, Null, Null)
                 /\ WorkerTaskStep(id, "handler", Null)
            ELSE /\ db' = db
                 /\ WorkerTaskStep(id, "catch", StoreErrorMessage)
  /\ WorkerFrame

\* variant: no timeout in the race, a handler that never settles is awaited forever
WorkerHandlerNoTimeout(id) ==
  /\ id \in DOMAIN batch
  /\ batch[id].at = "handler"
  /\ \E outcome \in HandlerOutcomes, ok \in BOOLEAN :
       LET result == HandlerResult(outcome) IN
       IF outcome = "timeout"
       THEN /\ db' = db
            /\ WorkerTaskStep(id, "hung", Null)
       ELSE IF RaceRejects(outcome)
       THEN /\ db' = db
            /\ WorkerTaskStep(id, "catch", result.error)
       ELSE IF ~ok
       THEN /\ db' = db
            /\ WorkerTaskStep(id, "catch", StoreErrorMessage)
       ELSE IF result.success
       THEN /\ db' = updateActionStatus(db, id, COMPLETED, result.result, Null)
            /\ WorkerTaskStep(id, "succeeded", Null)
       ELSE /\ db' = updateActionStatus(db, id, FAILED, Null, OrUnknown(result.error))
            /\ WorkerTaskStep(id, "failed", Null)
  /\ WorkerFrame

\* handler(action) raced against the timeout, then the status write
WorkerHandler(id) ==
  /\ id \in DOMAIN batch
  /\ batch[id].at = "handler"
  /\ \E outcome \in HandlerOutcomes, ok \in BOOLEAN :
       LET result == HandlerResult(outcome) IN
       IF RaceRejects(outcome)
       THEN /\ db' = db
            /\ WorkerTaskStep(id, "catch", result.error)
       ELSE IF ~ok
       THEN /\ db' = db
            /\ WorkerTaskStep(id, "catch", StoreErrorMessage)
       ELSE IF result.success
       THEN /\ db' = updateActionStatus(db, id, COMPLETED, result.result, Null)
            /\ WorkerTaskStep(id, "succeeded", Null)
       ELSE /\ db' = updateActionStatus(db, id, FAILED, Null, OrUnknown(result.error))
            /\ WorkerTaskStep(id, "failed", Null)
  /\ WorkerFrame

\* catch (error): await markActionFailed; failed++ only after the write
WorkerCatch(id) ==
  /\ id \in DOMAIN batch
  /\ batch[id].at = "catch"
  /\ \E ok \in BOOLEAN :
       IF ok
       THEN /\ db' = updateActionStatus(db, id, FAILED, Null, OrUnknown(batch[id].error))
            /\ WorkerTaskStep(id, "failed", Null)
       ELSE /\ db' = db
            /\ WorkerTaskStep(id, "rejected", Null)
  /\ WorkerFrame

\* every task settled: processActions returns (or throws on a rejected task)
WorkerFinish ==
  /\ DOMAIN batch # {}
  /\ \A id \in DOMAIN batch : Settled(batch[id])
  /\ batch' = <<>>
  /\ UNCHANGED <<batches, counters, workerCalls, db>>
  /\ WorkerFrame

\* ----------------------------------------------------------- action routes
ApiFrame ==
  /\ apiCalls < MaxApiCalls
  /\ apiCalls' = apiCalls + 1
  /\ UNCHANGED pipelineVars
  /\ UNCHANGED execVars
  /\ UNCHANGED workerVars
  /\ UNCHANGED auxVars
  /\ UNCHANGED <<trace, uuid, io>>

\* the routes answer 400 on a malformed id and 404 when getAction finds nothing
RouteFinds(id) == actionIdSchema(id) /\ HasItem(db, id)

\* PUT /:actionId with body { status }
ApiPut(id, status) ==
  /\ RouteFinds(id)
  /\ db' = updateActionStatus(db, id, status, Null, Null)
  /\ ApiFrame

\* POST /:actionId/complete
ApiComplete(id) ==
  /\ RouteFinds(id)
  /\ db' = updateActionStatus(db, id, COMPLETED, "{}", Null)
  /\ ApiFrame

\* POST /:actionId/fail
ApiFail(id) ==
  /\ RouteFinds(id)
  /\ db' = updateActionStatus(db, id, FAILED, Null, "Action failed")
  /\ ApiFrame

\* ------------------------------------------------------------ specification
PipelineNext ==
  \/ \E g \in GraphVariants : Invoke(g)
  \/ Retrieval
  \/ ExtractActions
  \/ Generate
  \/ GenerateWithSummary
  \/ ExecEnter
  \/ ExecLoop
  \/ ExecNoHandler
  \/ ExecMarkInProgress
  \/ ExecHandler
  \/ ExecMarkCompleted
  \/ ExecMarkFailed
  \/ ExecCatch
  \/ HandlerSettlesLate

Next == PipelineNext

\* one invocation of a graph variant on a loaded conversation state
Spec == Init /\ [][Next]_vars

StoreNext ==
  \/ PipelineNext
  \/ WorkerScan
  \/ \E id \in DOMAIN batch : WorkerDispatch(id)
  \/ \E id \in DOMAIN batch : WorkerHandler(id)
  \/ \E id \in DOMAIN batch : WorkerCatch(id)
  \/ WorkerFinish
  \/ \E id \in DOMAIN db, status \in ActionStatus : ApiPut(id, status)
  \/ \E id \in DOMAIN db : ApiComplete(id)
  \/ \E id \in DOMAIN db : ApiFail(id)

\* a chat turn with the background worker and the action routes running
SpecStore == InitStore /\ [][StoreNext]_vars

\* -------------------------------------------------------------- worker loop
\* the action types of the actions created while the loop runs
CreatedTypes == {BOOK_APPOINTMENT, SEARCH_KNOWLEDGE, "send_email"}

\* the ids createAction can draw
CreatedIds == {ActId(n) : n \in (MaxPreload + 1)..(MaxPreload + MaxCreated)}

\* createAction called by a request while the loop runs
CreateAction(type) ==
  /\ uuid < MaxPreload + MaxCreated
  /\ uuid' = uuid + 1
  /\ db' = PutAction(db, ActId(uuid + 1), type, "args")
  /\ UNCHANGED workerVars
  /\ UNCHANGED auxVars
  /\ UNCHANGED pipelineVars
  /\ UNCHANGED execVars
  /\ UNCHANGED <<trace, apiCalls, io>>

\* startActionProcessor: while (shouldContinue) { await processActions(); wait }
WorkerLoop ==
  /\ DOMAIN batch = {}
  /\ batch' = [id \in getPendingActions(db) |-> Task("start", Null)]
  /\ counters' = [succeeded |-> 0, failed |-> 0]
  /\ UNCHANGED <<batches, workerCalls, db>>
  /\ WorkerFrame

\* the steps of a task when every call of the durable store succeeds
HealthyDispatch(id) == WorkerDispatch(id) /\ batch'[id].at # "catch"
HealthyHandler(id) ==
  WorkerHandler(id) /\ ~(batch'[id].at = "catch" /\ batch'[id].error = StoreErrorMessage)
HealthyCatch(id) == WorkerCatch(id) /\ batch'[id].at = "failed"

InitLoop ==
  /\ input = [conversationId |-> "conv_1", messages |-> <<>>, context |-> <<>>,
              pending_actions |-> <<>>]
  /\ Idle
  /\ ChatIdle
  /\ CacheIdle
  /\ ValidateIdle
  /\ EmbedIdle

LoopNext ==
  \/ \E type \in CreatedTypes : CreateAction(type)
  \/ WorkerLoop
  \/ \E id \in DOMAIN batch : HealthyDispatch(id)
  \/ \E id \in DOMAIN batch : HealthyHandler(id)
  \/ \E id \in DOMAIN batch : HealthyCatch(id)
  \/ WorkerFinish

\* the worker loop over a healthy store: the loop's timer fires, every store
\* call resolves, every race is settled by the handler or by the timeout
LoopFairness ==
  /\ WF_vars(WorkerLoop)
  /\ WF_vars(WorkerFinish)
  /\ \A id \in CreatedIds :
       /\ WF_vars(id \in DOMAIN batch /\ HealthyDispatch(id))
       /\ WF_vars(id \in DOMAIN batch /\ HealthyHandler(id))
       /\ WF_vars(id \in DOMAIN batch /\ HealthyCatch(id))

SpecLoop == InitLoop /\ [][LoopNext]_vars /\ LoopFairness

\* ------------------------------------------------------ conversation routes
\* serializeMessage: { type, content }, type "unknown" without _getType
serializeMessage(message) ==
  [type |-> IF message.role \in {"human", "ai", "system"} THEN message.role ELSE "unknown",
   content |-> message.content]

\* variant: no branch for the system type, which falls to the default
reconstructMessageNoSystem(msg) ==
  Msg(IF msg.type \in {"human", "ai"} THEN msg.type ELSE "human", msg.content)

\* reconstructMessages: a message object by type, HumanMessage for any other type
reconstructMessage(msg) ==
  Msg(IF msg.type \in {"human", "ai", "system"} THEN msg.type ELSE "human", msg.content)

serializeState(state) ==
  [state EXCEPT !.messages = [k \in DOMAIN state.messages |-> serializeMessage(state.messages[k])]]

\* variant: the save appends the messages not yet stored to whatever is stored now
saveConversationStateMerging(table, state) ==
  IF state.conversationId \in DOMAIN table
  THEN LET stored == table[state.conversationId].messages
            added == SelectSeq(serializeState(state).messages,
                               LAMBDA m : \A k \in DOMAIN stored : stored[k] # m)
        IN (state.conversationId :> [table[state.conversationId] EXCEPT !.messages = @ \o added])
           @@ table
  ELSE (state.conversationId :> serializeState(state)) @@ table

\* saveConversationState: putItem of the whole serialized state under its id
saveConversationState(table, state) ==
  (state.conversationId :> serializeState(state)) @@ table

\* loadConversationState: the stored state with its messages reconstructed
loadConversationState(table, id) ==
  [table[id] EXCEPT !.messages = [k \in DOMAIN table[id].messages |->
                                    reconstructMessage(table[id].messages[k])]]

\* getOrCreateConversationState: the stored state or a new empty one
getOrCreateConversationState(table, id) ==
  IF id \in DOMAIN table THEN loadConversationState(table, id)
  ELSE [conversationId |-> id, messages |-> <<>>, context |-> <<>>, pending_actions |-> <<>>]

\* the text of the r-th chat request and of the model's reply to it
HumanText(r) == CASE r = 1 -> "first" [] r = 2 -> "second" [] OTHER -> "third"
ReplyText(r) == CASE r = 1 -> "reply to first" [] r = 2 -> "reply to second"
                  [] OTHER -> "reply to third"

\* the table before the requests: no conversation, or one with an earlier turn
StoredConversations ==
  { <<>>,
    saveConversationState(<<>>,
      [conversationId |-> "conv_1",
       messages |-> <<Msg("human", "earlier"), Msg("ai", "reply to earlier")>>,
       context |-> <<>>, pending_actions |-> <<>>]) }

ChatFrame ==
  /\ UNCHANGED coreVars
  /\ UNCHANGED cacheVars
  /\ UNCHANGED validateVars
  /\ UNCHANGED embedVars

ChatRequest(at, state, current) == [at |-> at, state |-> state, current |-> current]

\* POST /chat: const state = await getOrCreateConversationState(id), then
\* addHumanMessage(state, message); a failed read answers 500
ChatLoad(r) ==
  /\ chat[r].at = "start"
  /\ \E ok \in BOOLEAN :
       chat' = [chat EXCEPT ![r] =
                  IF ok
                  THEN LET state == getOrCreateConversationState(convTable, "conv_1")
                       IN ChatRequest("loaded", state, addHumanMessage(state, HumanText(r)))
                  ELSE ChatRequest("error", NoState, NoState)]
  /\ UNCHANGED <<convTable, admin>>
  /\ ChatFrame

\* const result = await graph.invoke(updatedState): never rejects, keeps the
\* messages and appends the reply, or nothing when the reply is blank
ChatInvoke(r) ==
  /\ chat[r].at = "loaded"
  /\ \E reply \in {ReplyText(r), ""} :
       chat' = [chat EXCEPT ![r] =
                  ChatRequest("invoked", chat[r].state, addAIMessage(chat[r].current, reply))]
  /\ UNCHANGED <<convTable, admin>>
  /\ ChatFrame

\* await saveConversationState(result), then res.json(response); a failed
\* write answers 500
ChatSave(r) ==
  /\ chat[r].at = "invoked"
  /\ \E ok \in BOOLEAN :
       IF ok
       THEN /\ convTable' = saveConversationState(convTable, chat[r].current)
            /\ chat' = [chat EXCEPT ![r].at = "ok"]
       ELSE /\ convTable' = convTable
            /\ chat' = [chat EXCEPT ![r].at = "error"]
  /\ UNCHANGED admin
  /\ ChatFrame

\* the chat requests whose state has been saved
Saved == {r \in DOMAIN chat : chat[r].at = "ok"}

Answer(route, status) == [route |-> route, status |-> status, saved |-> Saved]

\* GET /:conversationId: 404 when the state has no messages, 500 on a failed read
ApiGetConversation ==
  /\ Len(admin) < MaxAdminCalls
  /\ \E ok \in BOOLEAN :
       admin' = Append(admin,
                  IF ~ok THEN Answer("GET", 500)
                  ELSE IF Len(getOrCreateConversationState(convTable, "conv_1").messages) = 0
                  THEN Answer("GET", 404)
                  ELSE Answer("GET", 200))
  /\ UNCHANGED <<convTable, chat>>
  /\ ChatFrame

\* DELETE /:conversationId: `// TODO: Implement conversation deletion`, then
\* res.json({ success: true })
ApiDeleteConversation ==
  /\ Len(admin) < MaxAdminCalls
  /\ admin' = Append(admin, Answer("DELETE", 200))
  /\ UNCHANGED <<convTable, chat>>
  /\ ChatFrame

InitChat ==
  /\ input = [conversationId |-> "conv_1", messages |-> <<>>, context |-> <<>>,
              pending_actions |-> <<>>]
  /\ Idle
  /\ convTable \in StoredConversations
  /\ chat = [r \in 1..MaxRequests |-> ChatRequest("start", NoState, NoState)]
  /\ admin = <<>>
  /\ CacheIdle
  /\ ValidateIdle
  /\ EmbedIdle

ChatNext ==
  \/ \E r \in DOMAIN chat : ChatLoad(r)
  \/ \E r \in DOMAIN chat : ChatInvoke(r)
  \/ \E r \in DOMAIN chat : ChatSave(r)
  \/ ApiGetConversation
  \/ ApiDeleteConversation

\* concurrent chat requests, reads and deletes on one conversation
SpecChat == InitChat /\ [][ChatNext]_vars

\* ------------------------------------------------------ save and load again
\* the messages the program appends: human, ai and system with a text
SavedMessages ==
  UNION { [1..n -> {Msg(role, content) : role \in {"human", "ai", "system"},
                                         content \in {"hi", "reply"}}]
          : n \in 0..MaxMessages }

\* the states handed to saveConversationState
SavedStates ==
  { [conversationId |-> "conv_1", messages |-> m, context |-> c, pending_actions |-> p] :
      m \in SavedMessages, c \in InitialContexts, p \in PreloadedActions }

RoundTripFrame ==
  /\ UNCHANGED coreVars
  /\ UNCHANGED cacheVars
  /\ UNCHANGED embedVars
  /\ UNCHANGED <<chat, admin, vin>>

\* await saveConversationState(vin) resolves
Save ==
  /\ "conv_1" \notin DOMAIN convTable
  /\ convTable' = saveConversationState(convTable, vin)
  /\ UNCHANGED vout
  /\ RoundTripFrame

\* await loadConversationState(vin.conversationId) resolves
Load ==
  /\ "conv_1" \in DOMAIN convTable
  /\ vout = <<>>
  /\ vout' = <<loadConversationState(convTable, vin.conversationId)>>
  /\ UNCHANGED convTable
  /\ RoundTripFrame

InitRoundTrip ==
  /\ input = [conversationId |-> "conv_1", messages |-> <<>>, context |-> <<>>,
              pending_actions |-> <<>>]
  /\ Idle
  /\ ChatIdle
  /\ CacheIdle
  /\ vin \in SavedStates
  /\ vout = <<>>
  /\ EmbedIdle

RoundTripNext == Save \/ Load

\* saveConversationState followed by loadConversationState of the same id
SpecRoundTrip == InitRoundTrip /\ [][RoundTripNext]_vars

\* ---------------------------------------------------------- cached clients
\* a call of createVectorStore("default"): where it is suspended, the index
\* getPineconeIndex returned to it, the vector store it returned
Caller(at, index, got) == [at |-> at, index |-> index, got |-> got]

CacheFrame ==
  /\ UNCHANGED coreVars
  /\ UNCHANGED chatVars
  /\ UNCHANGED validateVars
  /\ UNCHANGED embedVars

\* createVectorStore up to its first suspension: the cache check, then
\* getPineconeIndex's check of pineconeIndex, then initPinecone's check of
\* pineconeInstance; `pineconeInstance = new Pinecone(...)` is assigned
\* before `await pineconeInstance.listIndexes()`
createVectorStore(c) ==
  /\ callers[c].at = "start"
  /\ IF cache.vectorStoreCache # 0
     THEN /\ callers' = [callers EXCEPT ![c] = Caller("done", 0, cache.vectorStoreCache)]
          /\ cache' = cache
     ELSE IF cache.pineconeIndex # 0
     THEN /\ callers' = [callers EXCEPT ![c] = Caller("fromExistingIndex", cache.pineconeIndex, 0)]
          /\ cache' = cache
     ELSE IF cache.pineconeInstance # 0
     THEN /\ callers' = [callers EXCEPT ![c].at = "Index"]
          /\ cache' = cache
     ELSE /\ callers' = [callers EXCEPT ![c].at = "listIndexes"]
          /\ cache' = [cache EXCEPT !.pineconeInstance = cache.clients + 1,
                                    !.clients = cache.clients + 1]
  /\ CacheFrame

\* await pineconeInstance.listIndexes() settles: initPinecone returns the
\* instance or throws, the instance stays assigned either way
ListIndexesSettles(c) ==
  /\ callers[c].at = "listIndexes"
  /\ \E ok \in BOOLEAN :
       callers' = [callers EXCEPT ![c].at = IF ok THEN "Index" ELSE "failed"]
  /\ UNCHANGED cache
  /\ CacheFrame

\* pineconeIndex = pinecone.Index(PINECONE_INDEX), then
\* await pineconeIndex.describeIndexStats()
getPineconeIndex(c) ==
  /\ callers[c].at = "Index"
  /\ cache' = [cache EXCEPT !.pineconeIndex = cache.indexes + 1,
                            !.indexes = cache.indexes + 1]
  /\ callers' = [callers EXCEPT ![c].at = "describeIndexStats"]
  /\ CacheFrame

\* describeIndexStats settles: `return pineconeIndex` reads the module
\* variable as it is now, or the call throws
DescribeIndexStatsSettles(c) ==
  /\ callers[c].at = "describeIndexStats"
  /\ \E ok \in BOOLEAN :
       callers' = [callers EXCEPT ![c] =
                     IF ok THEN Caller("fromExistingIndex", cache.pineconeIndex, 0)
                     ELSE Caller("failed", 0, 0)]
  /\ UNCHANGED cache
  /\ CacheFrame

\* await PineconeStore.fromExistingIndex(...) settles: a new store, put
\* into vectorStoreCache and returned, or the call throws
FromExistingIndexSettles(c) ==
  /\ callers[c].at = "fromExistingIndex"
  /\ \E ok \in BOOLEAN :
       IF ok
       THEN /\ cache' = [cache EXCEPT !.vectorStoreCache = cache.stores + 1,
                                      !.stores = cache.stores + 1]
            /\ callers' = [callers EXCEPT ![c] = Caller("done", callers[c].index, cache.stores + 1)]
       ELSE /\ cache' = cache
            /\ callers' = [callers EXCEPT ![c].at = "failed"]
  /\ CacheFrame

InitCache ==
  /\ input = [conversationId |-> "conv_1", messages |-> <<>>, context |-> <<>>,
              pending_actions |-> <<>>]
  /\ Idle
  /\ ChatIdle
  /\ cache = [vectorStoreCache |-> 0, pineconeIndex |-> 0, pineconeInstance |-> 0,
              stores |-> 0, indexes |-> 0, clients |-> 0]
  /\ callers = [c \in 1..MaxCallers |-> Caller("start", 0, 0)]
  /\ ValidateIdle
  /\ EmbedIdle

CacheNext ==
  \/ \E c \in DOMAIN callers : createVectorStore(c)
  \/ \E c \in DOMAIN callers : ListIndexesSettles(c)
  \/ \E c \in DOMAIN callers : getPineconeIndex(c)
  \/ \E c \in DOMAIN callers : DescribeIndexStatsSettles(c)
  \/ \E c \in DOMAIN callers : FromExistingIndexSettles(c)

\* concurrent requests for the vector store of one namespace
SpecCache == InitCache /\ [][CacheNext]_vars

\* -------------------------------------------------------- schema validation
\* a JSON value by what typeof, Number.isInteger and Array.isArray tell of it
Value(kind, v) == [kind |-> kind, v |-> v]

Values ==
  {Value("string", "text"), Value("string", ""), Value("string", "work"),
   Value("null", "null"), Value("integer", "5"), Value("number", "1.5"),
   Value("array", "[]"), Value("object", "{}")}

\* one entry of parameters.properties: its type and its enum, {} without one
PropertySchema(type, enum) == [truthy |-> TRUE, type |-> type, enum |-> enum]

\* functionDefinitions[...].parameters.properties
Properties(type) ==
  CASE type = BOOK_APPOINTMENT ->
         [person |-> PropertySchema("string", {}), date |-> PropertySchema("string", {}),
          time |-> PropertySchema("string", {}), duration |-> PropertySchema("integer", {}),
          purpose |-> PropertySchema("string", {}), location |-> PropertySchema("string", {})]
    [] type = TAKE_NOTE ->
         [title |-> PropertySchema("string", {}), content |-> PropertySchema("string", {}),
          category |-> PropertySchema("string", {"personal", "work", "ideas", "tasks", "other"}),
          tags |-> PropertySchema("array", {})]
    [] type = SET_REMINDER ->
         [title |-> PropertySchema("string", {}), date |-> PropertySchema("string", {}),
          time |-> PropertySchema("string", {}), description |-> PropertySchema("string", {}),
          priority |-> PropertySchema("string", {"low", "medium", "high"}),
          recurrence |-> PropertySchema("string", {"none", "daily", "weekly", "monthly"})]
    [] type = SEARCH_KNOWLEDGE ->
         [query |-> PropertySchema("string", {}), filters |-> PropertySchema("object", {}),
          maxResults |-> PropertySchema("integer", {})]
    [] OTHER -> <<>>

\* functionDefinitions[...].parameters.required
Required(type) ==
  CASE type = BOOK_APPOINTMENT -> {"person", "date", "time"}
    [] type = TAKE_NOTE -> {"content"}
    [] type = SET_REMINDER -> {"title", "date", "time"}
    [] type = SEARCH_KNOWLEDGE -> {"query"}
    [] OTHER -> {}

\* what every object literal inherits: members of Object.prototype
ObjectPrototype == {"toString", "constructor", "__proto__"}

\* schema.properties[field]: the declared entry, an inherited member (truthy,
\* no type, no enum), or undefined
FieldSchema(type, field) ==
  IF field \in DOMAIN Properties(type) THEN Properties(type)[field]
  ELSE IF field \in ObjectPrototype THEN [truthy |-> TRUE, type |-> "undefined", enum |-> {}]
  ELSE [truthy |-> FALSE, type |-> "undefined", enum |-> {}]

ValidationError(error, name) == [error |-> error, name |-> name]

\* data[field] === undefined || data[field] === null || data[field] === ""
MissingRequired(data, field) ==
  \/ field \notin DOMAIN data
  \/ data[field].kind = "null"
  \/ data[field] = Value("string", "")

\* the if / else-if chain of the type validation
WrongType(fieldSchema, value) ==
  \/ fieldSchema.type = "string" /\ value.kind # "string"
  \/ fieldSchema.type = "integer" /\ value.kind # "integer"
  \/ fieldSchema.type = "array" /\ value.kind # "array"
  \/ fieldSchema.type = "object" /\ value.kind # "object"

\* 'enum' in fieldSchema && !fieldSchema.enum.includes(value)
NotInEnum(fieldSchema, value) ==
  /\ fieldSchema.enum # {}
  /\ ~(value.kind = "string" /\ value.v \in fieldSchema.enum)

\* validateActionData on structured data: { valid, errors }
validateActionDataSchema(type, data) ==
  IF type \notin functionDefinitions
  THEN [valid |-> FALSE, errors |-> {ValidationError("Unknown action type", type)}]
  ELSE LET errors ==
             {ValidationError("Missing required field", f) :
                f \in {g \in Required(type) : MissingRequired(data, g)}}
             \cup {ValidationError("Unknown field", f) :
                f \in {g \in DOMAIN data : ~FieldSchema(type, g).truthy}}
             \cup {ValidationError("Wrong type", f) :
                f \in {g \in DOMAIN data : /\ FieldSchema(type, g).truthy
                                            /\ WrongType(FieldSchema(type, g), data[g])}}
             \cup {ValidationError("Not in enum", f) :
                f \in {g \in DOMAIN data : /\ FieldSchema(type, g).truthy
                                            /\ NotInEnum(FieldSchema(type, g), data[g])}}
       IN [valid |-> errors = {}, errors |-> errors]

\* the action types and field names the inputs are drawn from
InputTypes == functionDefinitions \cup {"send_email"}

FieldNames ==
  {"content", "category", "tags", "title", "query", "maxResults", "filters",
   "extra", "toString"}

InputData ==
  UNION {[S -> Values] : S \in {T \in SUBSET FieldNames : Cardinality(T) <= MaxFields}}

ValidateFrame ==
  /\ UNCHANGED coreVars
  /\ UNCHANGED chatVars
  /\ UNCHANGED cacheVars
  /\ UNCHANGED embedVars

\* one call validateActionData(vin.type, vin.data)
Validate ==
  /\ vout = <<>>
  /\ vout' = <<validateActionDataSchema(vin.type, vin.data)>>
  /\ UNCHANGED vin
  /\ ValidateFrame

InitValidate ==
  /\ input = [conversationId |-> "conv_1", messages |-> <<>>, context |-> <<>>,
              pending_actions |-> <<>>]
  /\ Idle
  /\ ChatIdle
  /\ CacheIdle
  /\ vin \in [type : InputTypes, data : InputData]
  /\ vout = <<>>
  /\ EmbedIdle

\* validateActionData applied to every input of the bounded sets
SpecValidate == InitValidate /\ [][Validate]_vars

\* --------------------------------------------------------- embeddings cache
\* the texts the cache is called with and the embeddings stored
Texts == {"a", " A ", "b", "", "  "}
Embeddings == {1, 2}

\* normalizeKey: text.trim().toLowerCase()
normalizeKey(text) ==
  CASE text = " A " -> "a"
    [] text = "  " -> ""
    [] OTHER -> text

\* the keys of a Map and the position of a key in its insertion order
Keys(map) == {map[i].key : i \in DOMAIN map}
KeyIndex(map, key) == CHOOSE i \in DOMAIN map : map[i].key = key

\* Map.prototype.set: a present key keeps its position, a new one goes last
MapSet(map, key, embedding) ==
  IF key \in Keys(map)
  THEN [map EXCEPT ![KeyIndex(map, key)] = [key |-> key, embedding |-> embedding]]
  ELSE Append(map, [key |-> key, embedding |-> embedding])

\* `if (oldestKey)`: undefined on an empty Map and "" are falsy
Truthy(map) == Len(map) > 0 /\ map[1].key # ""

\* EmbeddingsCache.set
set(c, text, embedding) ==
  LET kept == IF Len(c.cache) >= c.maxSize /\ Truthy(c.cache) THEN Tail(c.cache) ELSE c.cache
  IN [c EXCEPT !.cache = MapSet(kept, normalizeKey(text), embedding)]

\* EmbeddingsCache.clear
clear(c) == [c EXCEPT !.cache = <<>>]

CacheCall(op, text) == [op |-> op, text |-> text]

EmbedFrame ==
  /\ UNCHANGED coreVars
  /\ UNCHANGED chatVars
  /\ UNCHANGED cacheVars
  /\ UNCHANGED validateVars

CallSet(text, embedding) ==
  /\ embeddingsCache' = [set(embeddingsCache, text, embedding) EXCEPT !.call = CacheCall("set", text)]
  /\ EmbedFrame

\* EmbeddingsCache.get reads the Map under the normalized key
CallGet(text) ==
  /\ embeddingsCache' = [embeddingsCache EXCEPT !.call = CacheCall("get", text)]
  /\ EmbedFrame

\* EmbeddingsCache.has reads the Map under the normalized key
CallHas(text) ==
  /\ embeddingsCache' = [embeddingsCache EXCEPT !.call = CacheCall("has", text)]
  /\ EmbedFrame

CallClear ==
  /\ embeddingsCache' = [clear(embeddingsCache) EXCEPT !.call = CacheCall("clear", "")]
  /\ EmbedFrame

\* new EmbeddingsCache(maxSize)
InitEmbed ==
  /\ input = [conversationId |-> "conv_1", messages |-> <<>>, context |-> <<>>,
              pending_actions |-> <<>>]
  /\ Idle
  /\ ChatIdle
  /\ CacheIdle
  /\ ValidateIdle
  /\ \E maxSize \in 1..MaxCacheSize :
       embeddingsCache = [maxSize |-> maxSize, cache |-> <<>>, call |-> NoCacheCall]

EmbedNext ==
  \/ \E text \in Texts, embedding \in Embeddings : CallSet(text, embedding)
  \/ \E text \in Texts : CallGet(text)
  \/ \E text \in Texts : CallHas(text)
  \/ CallClear

\* any sequence of calls on one EmbeddingsCache
SpecEmbed == InitEmbed /\ [][EmbedNext]_vars

\* ------------------------------------------------------------- properties
Ran(stage) == \E i \in DOMAIN trace : trace[i] = stage

\* invoke() went through its catch block: the execution stage threw
StageThrew == pc = "done" /\ Len(trace) > 0 /\ trace[Len(trace)] = "execute"

StoreHealthy == \A j \in DOMAIN writes : writes[j].ok

Called(id) == \E i \in DOMAIN calls : calls[i].id = id
Written(id) == \E j \in DOMAIN writes : writes[j].id = id

\* C1: invoke() of every graph variant resolves to a ConversationState and
\* never rejects, whichever collaborator calls fail: no run rejects, a run
\* that is not finished can always take a step, and a finished run holds a
\* state of the same conversation.
C1_InvokeNeverRejects ==
  /\ ~rejected
  /\ pc \notin {"idle", "done"} => ENABLED Next
  /\ pc = "done" => /\ returned # NoState
                    /\ returned.conversationId = input.conversationId

\* a run in which a durable write failed, the stage threw and invoke() resolved
C1_Witness ==
  /\ pc = "done"
  /\ ~StoreHealthy
  /\ StageThrew
  /\ returned # NoState

\* C2: when a stage throws, the returned state is the partial state of the
\* stages that completed before the throw plus one apologetic ai message.
C2_FallbackKeepsPartialState ==
  StageThrew => returned \in { createFallbackResponse(currentState),
                                createFallbackResponse(updatedState) }

\* C3: in the conditional graph, execution followed by generation with the
\* action summary runs iff pending_actions is non-empty after extraction,
\* otherwise only plain generation runs; every run invokes exactly one
\* generation node.
C3_BranchOnPendingActions ==
  (graph = "conditional" /\ pc = "done") =>
     IF Len(currentState.pending_actions) > 0
     THEN trace = <<"retrieval", "extract", "execute", "generate_summary">>
     ELSE trace = <<"retrieval", "extract", "generate">>

\* C4: a durable action that is completed, failed or cancelled never changes
\* status again, and no action moves from in_progress back to pending, under
\* any interleaving of the pipeline, the worker and the action routes.
C4_TerminalStatusesAreFinal ==
  [][\A id \in DOMAIN db :
       /\ db[id].status \in {COMPLETED, FAILED, CANCELLED} => db'[id].status = db[id].status
       /\ ~(db[id].status = IN_PROGRESS /\ db'[id].status = PENDING)]_vars

\* C5: the handler of a pending action is invoked only after the in-state
\* status is in_progress and the durable in_progress write has completed; an
\* action whose in_progress write was rejected gets no handler invocation.
C5_InProgressBeforeHandler ==
  /\ pc = "exec_handler" =>
       /\ updatedState.pending_actions[idx].status = IN_PROGRESS
       /\ writes[Len(writes)] = Write(entry[idx].id, IN_PROGRESS, Null, TRUE)
       /\ db[entry[idx].id].status = IN_PROGRESS
  /\ \A i \in DOMAIN calls :
       \E j \in DOMAIN writes : writes[j] = Write(calls[i].id, IN_PROGRESS, Null, TRUE)
  /\ \A j \in DOMAIN writes :
       (writes[j].status = IN_PROGRESS /\ ~writes[j].ok) => ~Called(writes[j].id)

\* one handler ran after its write, another action's write was rejected
C5_Witness ==
  /\ Len(calls) > 0
  /\ \E j \in DOMAIN writes : writes[j].status = IN_PROGRESS /\ ~writes[j].ok

\* the action appended by extraction in this invocation and its durable twin
ExtractedLocalId == PendingId(uuid - 1)
ExtractedDurableId == ActId(uuid)

\* C6: once the pipeline has executed an extracted action, the durable record
\* that extraction created for it has the in-state status (completed or
\* failed) and is no longer pending.
C6_ExecutionReachesDurableRecord ==
  (pc = "done" /\ HasItem(db, ExtractedDurableId)) =>
     \A k \in DOMAIN returned.pending_actions :
        (/\ returned.pending_actions[k].id = ExtractedLocalId
         /\ returned.pending_actions[k].status \in {COMPLETED, FAILED})
        => db[ExtractedDurableId].status = returned.pending_actions[k].status

\* C7: the execution stage never throws: after a rejected status write it
\* still processes the remaining pending actions and returns a state that
\* reflects every transition it attempted.
C7_ExecutionNeverThrows ==
  (pc = "done" /\ Ran("execute")) =>
     /\ ~StageThrew
     /\ \A k \in DOMAIN entry :
          entry[k].status = PENDING =>
             returned.pending_actions[k].status \in {COMPLETED, FAILED}

\* the status the handler outcome of the k-th action of the batch calls for
OutcomeStatus(outcome) == IF outcome = "ok" THEN COMPLETED ELSE FAILED

\* C8: with a healthy durable store, an action whose handler throws or
\* returns success=false ends failed, and every other pending action of the
\* batch is still executed once and ends completed or failed by its own
\* handler's outcome; the returned state holds all the actions.
C8_BatchIsolation ==
  (pc = "generate_summary" /\ Len(entry) > 0 /\ StoreHealthy) =>
     /\ Len(currentState.pending_actions) = Len(entry)
     /\ \A k \in DOMAIN entry :
          /\ currentState.pending_actions[k].id = entry[k].id
          /\ (entry[k].status = PENDING /\ HasHandler(entry[k])) =>
               /\ Cardinality({i \in DOMAIN calls : calls[i].id = entry[k].id}) = 1
               /\ \A i \in DOMAIN calls :
                    calls[i].id = entry[k].id =>
                       currentState.pending_actions[k].status = OutcomeStatus(calls[i].outcome)
          /\ (entry[k].status = PENDING /\ ~HasHandler(entry[k])) =>
               currentState.pending_actions[k].status = FAILED

\* a handler threw or reported failure and a later action still completed
C8_Witness ==
  /\ pc = "generate_summary"
  /\ StoreHealthy
  /\ \E i, j \in DOMAIN calls :
       /\ i < j
       /\ calls[i].outcome \in {"throw", "fail"}
       /\ calls[j].outcome = "ok"
       /\ \E k \in DOMAIN entry : /\ entry[k].id = calls[j].id
                                  /\ currentState.pending_actions[k].status = COMPLETED

\* the k-th action of the batch was reached by the loop
Dispatched(k) == Written(entry[k].id)

\* C9: a pending action without a handler becomes failed in the state, gets
\* a durable failed write naming the missing type, no handler invocation and
\* no in_progress, and the stage continues with the next pending action.
C9_NoHandlerFailsAndContinues ==
  (pc = "done" /\ Ran("execute")) =>
     \A k \in DOMAIN entry :
        (entry[k].status = PENDING /\ ~HasHandler(entry[k]) /\ Dispatched(k)) =>
           /\ updatedState.pending_actions[k].status = FAILED
           /\ \E j \in DOMAIN writes :
                /\ writes[j].id = entry[k].id
                /\ writes[j].status = FAILED
                /\ writes[j].error = NoHandlerError(entry[k].type)
           /\ ~Called(entry[k].id)
           /\ \A j \in DOMAIN writes :
                writes[j].id = entry[k].id => writes[j].status # IN_PROGRESS
           /\ \A k2 \in DOMAIN entry :
                (k2 > k /\ entry[k2].status = PENDING) => Dispatched(k2)

\* C10: the execution stage changes only actions that are pending on entry:
\* an action entering as in_progress, completed, failed or cancelled keeps
\* its status, type and data, and gets no handler call and no durable write.
C10_NonPendingUntouched ==
  \A k \in DOMAIN entry :
     entry[k].status # PENDING =>
        /\ updatedState.pending_actions[k] = entry[k]
        /\ pc \in {"generate_summary", "done"} /\ ~StageThrew
             => returned = NoState \/ returned.pending_actions[k] = entry[k]
        /\ pc = "generate_summary" => currentState.pending_actions[k] = entry[k]
        /\ ~Called(entry[k].id)
        /\ ~Written(entry[k].id)

\* a batch with a resolved action next to a pending one that was executed
C10_Witness ==
  /\ pc = "generate_summary"
  /\ Len(calls) > 0
  /\ \E k \in DOMAIN entry :
       /\ entry[k].status \in {IN_PROGRESS, COMPLETED, FAILED, CANCELLED}
       /\ currentState.pending_actions[k] = entry[k]

\* the position in the batch of the action with this id
ActionIndex(id) == CHOOSE k \in DOMAIN entry : entry[k].id = id

\* the loop is done with the k-th action of the batch: it moved on, or the
\* stage ended while working on it
Processed(k) == idx > k \/ (idx = k /\ pc = "done")

\* C11: an action whose timeout fires before its handler settles becomes
\* failed in the state with a durable write carrying 'Action execution timed
\* out', and stays failed when the handler resolves later; an action whose
\* handler settles first gets the status its handler's result calls for.
C11_TimeoutOrHandlerDecides ==
  \A i \in DOMAIN calls :
     LET k == ActionIndex(calls[i].id) IN
     Processed(k) =>
        IF calls[i].outcome = "timeout"
        THEN /\ updatedState.pending_actions[k].status = FAILED
             /\ \E j \in DOMAIN writes :
                  /\ writes[j].id = calls[i].id
                  /\ writes[j].status = FAILED
                  /\ writes[j].error = TimedOutMessage
             /\ \A j \in DOMAIN writes :
                  writes[j].id = calls[i].id => writes[j].status # COMPLETED
        ELSE updatedState.pending_actions[k].status = OutcomeStatus(calls[i].outcome)

\* C11, the timeout alone: whatever the store does and however the handler
\* settles afterwards, a timed-out action is failed in the stage's state and
\* the failed write issued for it carries the timeout message.
C11_TimedOutStaysFailed ==
  \A i \in DOMAIN calls :
     LET k == ActionIndex(calls[i].id) IN
     (Processed(k) /\ calls[i].outcome = "timeout") =>
        /\ updatedState.pending_actions[k].status = FAILED
        /\ \E j \in DOMAIN writes :
             writes[j] \in { Write(calls[i].id, FAILED, TimedOutMessage, ok) : ok \in BOOLEAN }
        /\ \A j \in DOMAIN writes :
             writes[j].id = calls[i].id => writes[j].status # COMPLETED

\* a timed-out action whose handler resolved with success afterwards
C11_LateSuccess ==
  \E i \in DOMAIN calls :
     /\ calls[i].outcome = "timeout"
     /\ calls[i].late = "ok"
     /\ Processed(ActionIndex(calls[i].id))

\* C12: for a pending action that has a handler, the in-state status after
\* execution is completed exactly when the handler returned success=true and
\* failed when it returned success=false, threw or timed out; the durable
\* error of a failed action is the handler's error or the generic message;
\* no executed action is left pending or in_progress.
C12_StatusFollowsHandler ==
  \A k \in DOMAIN entry :
     (entry[k].status = PENDING /\ HasHandler(entry[k]) /\ Processed(k)) =>
        /\ updatedState.pending_actions[k].status \in {COMPLETED, FAILED}
        /\ \A i \in DOMAIN calls :
             calls[i].id = entry[k].id =>
                /\ updatedState.pending_actions[k].status = COMPLETED
                      <=> HandlerResult(calls[i].outcome).success
                /\ \A j \in DOMAIN writes :
                     (writes[j].id = entry[k].id /\ writes[j].status = FAILED) =>
                        writes[j].error = OrUnknown(HandlerResult(calls[i].outcome).error)

\* the extraction model selected a book_appointment call with valid arguments
ExtractedValidBooking ==
  \E i \in DOMAIN io :
     /\ io[i].to = "extraction_model"
     /\ ExtractedAction(io[i].response).name = BOOK_APPOINTMENT
     /\ JsonParses(ExtractedAction(io[i].response).arguments)
     /\ validateActionData(BOOK_APPOINTMENT,
                           JsonParse(ExtractedAction(io[i].response).arguments))

\* no collaborator call of the invocation failed so far: semantic store,
\* models, createAction, status writes and handlers; the chat model answered
\* with text
EveryCollaboratorSucceeds ==
  /\ \A i \in DOMAIN io : io[i].ok
  /\ \A i \in DOMAIN io : io[i].to = "chat_model" => ~IsBlank(io[i].content)
  /\ StoreHealthy
  /\ \A i \in DOMAIN calls : calls[i].outcome = "ok"

ValidSelection(response) ==
  LET extracted == ExtractedAction(response) IN
  /\ response.ok
  /\ extracted # NoCall
  /\ JsonParses(extracted.arguments)
  /\ validateActionData(extracted.name, JsonParse(extracted.arguments))

\* this step is the extraction stage receiving a valid selection
ExtractsValid ==
  /\ pc = "extract"
  /\ Len(io') > Len(io)
  /\ ValidSelection(io'[Len(io) + 1].response)

\* this step creates one durable pending action of the selected type and
\* data, and appends one pending PendingAction of that type and data
CreatesAndAppendsOne ==
  LET extracted == ExtractedAction(io'[Len(io) + 1].response)
      created == DOMAIN db' \ DOMAIN db
      n == Len(currentState.pending_actions)
  IN /\ Cardinality(created) = 1
     /\ \A id \in created :
          /\ db'[id].status = PENDING
          /\ db'[id].type = extracted.name
          /\ db'[id].data = JsonParse(extracted.arguments)
     /\ \A id \in DOMAIN db : db'[id] = db[id]
     /\ Len(currentState'.pending_actions) = n + 1
     /\ \A k \in 1..n : currentState'.pending_actions[k] = currentState.pending_actions[k]
     /\ currentState'.pending_actions[n + 1].type = extracted.name
     /\ currentState'.pending_actions[n + 1].data = JsonParse(extracted.arguments)
     /\ currentState'.pending_actions[n + 1].status = PENDING

\* an extraction step adds at most one action to the list and to the table
AddsAtMostOne ==
  pc = "extract" =>
     /\ Len(currentState'.pending_actions) <= Len(currentState.pending_actions) + 1
     /\ Cardinality(DOMAIN db' \ DOMAIN db) <= 1

BadArguments(response) ==
  /\ response.ok
  /\ ExtractedAction(response) # NoCall
  /\ ExtractedAction(response).arguments \in {"unparseable", "invalid"}

\* C15: when the arguments of the selected call fail to parse as JSON or
\* fail registry validation, the extraction stage returns its input state
\* unchanged, issues no createAction call and creates no durable action.
C15_BadArgumentsChangeNothing ==
  [][(/\ pc = "extract"
      /\ Len(io') > Len(io)
      /\ BadArguments(io'[Len(io) + 1].response))
     => /\ currentState' = currentState
        /\ pc' = NextStage(graph, "extract", currentState)
        /\ ~rejected'
        /\ db' = db
        /\ Len(io') = Len(io) + 1]_vars

\* extraction has returned after a call with arguments that miss a field
C15_Witness ==
  /\ pc \in {"execute", "generate"}
  /\ Len(io) > 0
  /\ io[Len(io)].to = "extraction_model"
  /\ BadArguments(io[Len(io)].response)
  /\ ExtractedAction(io[Len(io)].response).arguments = "invalid"
  /\ db = <<>>

NoHumanMessage(state) == \A i \in DOMAIN state.messages : state.messages[i].role # "human"

\* C16: on a state without any human-role message, the retrieval stage and
\* the extraction stage each return their input unchanged and issue no
\* semantic-store query, no model call and no durable write.
C16_NoHumanMessageSkips ==
  [][(pc \in {"retrieval", "extract"} /\ NoHumanMessage(currentState))
     => /\ currentState' = currentState
        /\ pc' = NextStage(graph, pc, currentState)
        /\ io' = io
        /\ db' = db
        /\ writes' = writes
        /\ uuid' = uuid]_vars

\* both stages have run on a conversation that holds only a system message
C16_Witness ==
  /\ Len(input.messages) > 0
  /\ NoHumanMessage(input)
  /\ Ran("retrieval")
  /\ Ran("extract")
  /\ pc \in {"execute", "generate"}
  /\ currentState = input
  /\ io = <<>>

\* this step is the retrieval stage issuing its query, with this outcome
RetrievalQueries(ok) ==
  /\ pc = "retrieval"
  /\ Len(io') = Len(io) + 1
  /\ io'[Len(io')].to = "semantic_store"
  /\ io'[Len(io')].ok = ok

\* C17: when the semantic-store query fails, the retrieval stage does not
\* throw and returns a state whose context is empty and whose messages,
\* pending_actions and conversationId are those of its input.
C17_FailedQueryEmptiesContext ==
  [][RetrievalQueries(FALSE)
     => /\ pc' = NextStage(graph, "retrieval", currentState)
        /\ ~rejected'
        /\ currentState'.context = <<>>
        /\ currentState'.messages = currentState.messages
        /\ currentState'.pending_actions = currentState.pending_actions
        /\ currentState'.conversationId = currentState.conversationId]_vars

\* retrieval returned after a failed query on a state that carried context
C17_Witness ==
  /\ pc \in {"extract", "generate"}
  /\ trace = <<"retrieval">>
  /\ Len(io) = 1
  /\ ~io[1].ok
  /\ input.context # <<>>
  /\ currentState.context = <<>>
  /\ currentState.messages = input.messages

\* C18: after a retrieval stage that found a human message, context holds
\* exactly the results of that turn's query, in result order, the k-th
\* formatted '[k] <content>' with k counting from 1, and nothing of an
\* earlier turn; it is empty when the query returned nothing.
C18_ContextIsThisTurnsResults ==
  [][(pc = "retrieval" /\ ~NoHumanMessage(currentState))
     => /\ Len(io') = Len(io) + 1
        /\ io'[Len(io')].to = "semantic_store"
        /\ io'[Len(io')].ok =>
             /\ Len(currentState'.context) = Len(io'[Len(io')].docs)
             /\ \A i \in DOMAIN currentState'.context :
                  /\ currentState'.context[i].k = i
                  /\ currentState'.context[i].content = io'[Len(io')].docs[i]]_vars

\* retrieval replaced the context of an earlier turn by two numbered results
C18_Witness ==
  /\ trace = <<"retrieval">>
  /\ Len(io) = 1
  /\ io[1].ok
  /\ Len(io[1].docs) = 2
  /\ input.context # <<>>
  /\ currentState.context = <<[k |-> 1, content |-> io[1].docs[1]],
                               [k |-> 2, content |-> io[1].docs[2]]>>

\* this step is a generation stage calling the chat model, with this outcome
GenerationCalls(ok) ==
  /\ pc \in {"generate", "generate_summary"}
  /\ Len(io') = Len(io) + 1
  /\ io'[Len(io')].to = "chat_model"
  /\ io'[Len(io')].ok = ok

\* the step leaves every field but messages alone and ends the invocation
\* with the stage's state
GenerationReturns ==
  /\ pc' = "done"
  /\ ~rejected'
  /\ returned' = currentState'
  /\ currentState'.context = currentState.context
  /\ currentState'.pending_actions = currentState.pending_actions
  /\ currentState'.conversationId = currentState.conversationId

\* C19: when the generation model call rejects, the generation stage (plain
\* or with action summary) does not throw and returns the input messages
\* plus exactly one new ai message holding that mode's fixed apology.
C19_FailedGenerationApologises ==
  [][GenerationCalls(FALSE)
     => /\ GenerationReturns
        /\ Len(currentState'.messages) = Len(currentState.messages) + 1
        /\ \A k \in DOMAIN currentState.messages :
             currentState'.messages[k] = currentState.messages[k]
        /\ currentState'.messages[Len(currentState'.messages)] =
             [role |-> "ai",
              content |-> IF pc = "generate" THEN GenerateApology ELSE SummaryApology]]_vars

\* plain generation ended a run with its apology after the model call failed
C19_Witness ==
  /\ pc = "done"
  /\ trace[Len(trace)] = "generate"
  /\ Len(io) > 0
  /\ io[Len(io)].to = "chat_model"
  /\ ~io[Len(io)].ok
  /\ returned.messages = Append(input.messages, Msg("ai", GenerateApology))

\* C20: whenever the generation model call succeeds, whatever text it
\* returns, the generation stage appends exactly one new ai message carrying
\* that text, so the last message of the state handed to the chat response
\* is an ai message.
C20_SuccessfulGenerationAppendsReply ==
  [][GenerationCalls(TRUE)
     => /\ currentState'.messages =
             Append(currentState.messages, Msg("ai", io'[Len(io')].content))
        /\ returned'.messages[Len(returned'.messages)].role = "ai"]_vars

\* the message window handed to the prompt is empty
EmptyWindow(state) == Len(getMessageHistory(state, MAX_HISTORY_LENGTH)) = 0

\* C21: when the message window is empty, response generation, plain or
\* with action summary, appends the canned no-history assistant message
\* without calling the model, and the text does not depend on the run.
C21_EmptyWindowCannedReply ==
  [][(pc \in {"generate", "generate_summary"} /\ EmptyWindow(currentState))
     => /\ io' = io
        /\ currentState'.messages = Append(currentState.messages, Msg("ai", NoHistoryReply))
        /\ \A out \in ChatOutputs :
             /\ generateResponseNode(currentState, out)
                  = generateResponseNode(currentState, NoOutput)
             /\ generateResponseWithActionSummaryNode(currentState, out)
                  = generateResponseWithActionSummaryNode(currentState, NoOutput)]_vars

\* Prefix(s, t): s is a prefix of t
IsPrefix(s, t) == Len(s) <= Len(t) /\ \A k \in DOMAIN s : t[k] = s[k]

\* C22: within one invocation of any graph variant, the fallback path
\* included, the input messages are a prefix of the messages of every
\* intermediate state and of the returned state.
C22_MessagesOnlyGrow ==
  /\ pc \notin {"idle"} => IsPrefix(input.messages, currentState.messages)
  /\ updatedState # NoState => IsPrefix(input.messages, updatedState.messages)
  /\ pc = "done" =>
       /\ IsPrefix(input.messages, returned.messages)
       /\ Len(returned.messages) <= Len(input.messages) + 1

\* a run through the fallback path on a conversation that had messages
C22_Witness ==
  /\ pc = "done"
  /\ StageThrew
  /\ Len(input.messages) > 0
  /\ returned.messages = Append(input.messages, Msg("ai", OrchestratorApology))

\* the stage sequences a graph variant can run
StageOrders(g) ==
  CASE g = "minimal" -> { <<"generate">> }
    [] g = "rag" -> { <<"retrieval", "generate">> }
    [] g = "linear" -> { <<"retrieval", "extract", "execute", "generate_summary">> }
    [] g = "conditional" -> { <<"retrieval", "extract", "execute", "generate_summary">>,
                              <<"retrieval", "extract", "generate">> }
    [] OTHER -> { <<>> }

\* the createAction call of this invocation resolved
CreatedInThisRun == \E i \in DOMAIN io : io[i].to = "createAction" /\ io[i].ok

DetectedAction ==
  \E i \in DOMAIN io : io[i].to = "extraction_model" /\ ValidSelection(io[i].response)

\* C29: in the conditional graph, a turn in which extraction detects no
\* action runs plain generation only, neither execution nor the
\* action-summary generation, whatever actions the loaded state carries.
C29_NoDetectionPlainGeneration ==
  (graph = "conditional" /\ pc = "done" /\ ~DetectedAction) =>
     trace = <<"retrieval", "extract", "generate">>

\* C30: every action type that validation accepts has a handler in the
\* execution stage's table, so no extracted action that passed validation
\* gets a 'No handler for action type' failure.
C30_ValidatedTypesHaveHandlers ==
  /\ \A i \in DOMAIN io :
       (io[i].to = "extraction_model" /\ ValidSelection(io[i].response)) =>
          ExtractedAction(io[i].response).name \in actionHandlers
  /\ \A k \in DOMAIN entry :
       (DetectedAction /\ entry[k].id = ExtractedLocalId) =>
          \A j \in DOMAIN writes :
             writes[j].id = entry[k].id => writes[j].error # NoHandlerError(entry[k].type)

\* C28: an action extracted in a chat turn has its handler invoked at most
\* once in total, counting the pipeline's execution stage (on its in-state
\* id) and the background processor (on its durable id), under every
\* interleaving of the two.
C28_HandlerAtMostOnce ==
  Cardinality({i \in DOMAIN calls : calls[i].id = ExtractedLocalId})
    + (IF ExtractedDurableId \in workerCalls THEN 1 ELSE 0) <= 1

\* the stored conversation holds the human message of request r
StoresHuman(r) ==
  /\ "conv_1" \in DOMAIN convTable
  /\ \E k \in DOMAIN convTable["conv_1"].messages :
       convTable["conv_1"].messages[k] = serializeMessage(Msg("human", HumanText(r)))

\* C23: chat requests on one conversation are not serialized: whenever two
\* of them loaded the same stored state and both completed successfully,
\* the stored conversation lacks the human message (and so the turn) of at
\* least one of them.
C23_LastWriteWins ==
  \A r1, r2 \in DOMAIN chat :
     (/\ r1 # r2
      /\ chat[r1].at = "ok"
      /\ chat[r2].at = "ok"
      /\ chat[r1].state = chat[r2].state)
     => ~(StoresHuman(r1) /\ StoresHuman(r2))

\* both requests loaded the same state and answered 200; the table holds
\* the state of the second and nothing of the first
C23_Witness ==
  /\ chat[1].at = "ok"
  /\ chat[2].at = "ok"
  /\ chat[1].state = chat[2].state
  /\ Len(chat[1].current.messages) = Len(chat[1].state.messages) + 2
  /\ convTable["conv_1"] = serializeState(chat[2].current)
  /\ ~StoresHuman(1)
  /\ \A k \in DOMAIN convTable["conv_1"].messages :
       convTable["conv_1"].messages[k].content # ReplyText(1)

\* C26: once DELETE /:conversationId has answered with success, the state
\* is no longer in the durable store, and a GET that follows with no chat
\* request saved in between answers 404 (or 500 on a failed read).
C26_DeleteDeletes ==
  /\ \A i \in DOMAIN admin :
       (admin[i].route = "DELETE" /\ admin[i].status = 200 /\ admin[i].saved = Saved)
          => "conv_1" \notin DOMAIN convTable
  /\ \A i \in DOMAIN admin :
       (/\ i > 1
        /\ admin[i].route = "GET"
        /\ admin[i - 1].route = "DELETE"
        /\ admin[i - 1].status = 200
        /\ admin[i - 1].saved = admin[i].saved)
       => admin[i].status \in {404, 500}

\* C24: under every interleaving each cached client (the vector store of a
\* namespace, the Pinecone index, the Pinecone client) is constructed at
\* most once, and every request that got a vector store got the same one.
C24_ConstructedOnce ==
  /\ cache.stores <= 1
  /\ cache.indexes <= 1
  /\ cache.clients <= 1
  /\ \A c1, c2 \in DOMAIN callers :
       (callers[c1].at = "done" /\ callers[c2].at = "done")
          => callers[c1].got = callers[c2].got

\* the Pinecone client alone is constructed at most once: it is assigned
\* before the first suspension of initPinecone
C24_ClientConstructedOnce == cache.clients <= 1

\* what the specification states of a valid action: a registered type, every
\* required field present and neither null nor "", every provided field
\* declared, of the declared kind and a member of the declared enum
SchemaHolds(type, data) ==
  /\ type \in functionDefinitions
  /\ \A f \in Required(type) :
       f \in DOMAIN data /\ data[f].kind # "null" /\ data[f] # Value("string", "")
  /\ \A f \in DOMAIN data :
       /\ f \in DOMAIN Properties(type)
       /\ data[f].kind = Properties(type)[f].type
       /\ Properties(type)[f].enum # {} => data[f].v \in Properties(type)[f].enum

\* C25: validateActionData answers valid = true exactly when the type is in
\* the registry, every required field is present and neither null nor "",
\* and every provided field is declared, of the declared kind and in the
\* declared enum; an unknown type answers valid = false with one error
\* naming the type.
C25_ValidIffSchemaHolds ==
  Len(vout) = 1 =>
    /\ vout[1].valid <=> SchemaHolds(vin.type, vin.data)
    /\ vin.type \notin functionDefinitions =>
         vout[1] = [valid |-> FALSE,
                    errors |-> {ValidationError("Unknown action type", vin.type)}]

\* the equivalence holds for data that names no member of Object.prototype
C25_ValidIffSchemaHoldsOwnNames ==
  (Len(vout) = 1 /\ DOMAIN vin.data \cap ObjectPrototype = {}) =>
    /\ vout[1].valid <=> SchemaHolds(vin.type, vin.data)
    /\ vin.type \notin functionDefinitions =>
         vout[1] = [valid |-> FALSE,
                    errors |-> {ValidationError("Unknown action type", vin.type)}]

\* this step is the extraction stage whose createAction call rejected
CreateActionFails ==
  /\ pc = "extract"
  /\ Len(io') = Len(io) + 2
  /\ io'[Len(io) + 2].to = "createAction"
  /\ ~io'[Len(io) + 2].ok

\* this step is the extraction stage appending to pending_actions
ExtractionAppends ==
  /\ pc = "extract"
  /\ Len(currentState'.pending_actions) > Len(currentState.pending_actions)

\* the createAction call of this step resolved and left a new pending item
\* of the type and data of the appended entry
AppendedHasDurableRecord ==
  LET appended == currentState'.pending_actions[Len(currentState'.pending_actions)] IN
  /\ Len(io') = Len(io) + 2
  /\ io'[Len(io) + 2].to = "createAction"
  /\ io'[Len(io) + 2].ok
  /\ \E id \in DOMAIN db' \ DOMAIN db :
       /\ db'[id].type = appended.type
       /\ db'[id].data = appended.data
       /\ db'[id].status = PENDING

\* C31: the extraction stage appends a PendingAction only when createAction
\* resolved and the durable item exists; when createAction rejects, the stage
\* does not throw, returns its input state unchanged and writes nothing.
C31_AppendOnlyAfterDurableCreate ==
  [][/\ ExtractionAppends => AppendedHasDurableRecord
     /\ CreateActionFails =>
          /\ currentState' = currentState
          /\ db' = db
          /\ rejected' = rejected
          /\ pc' = NextStage(graph, "extract", currentState)]_vars

\* extraction ran on a valid selection, createAction rejected, and the stage
\* handed its input state on to the next stage
C31_Witness ==
  /\ Len(trace) > 0
  /\ trace[Len(trace)] = "extract"
  /\ pc \in {"execute", "generate"}
  /\ Len(io) >= 2
  /\ io[Len(io)].to = "createAction"
  /\ ~io[Len(io)].ok
  /\ ValidSelection(io[Len(io) - 1].response)
  /\ currentState.pending_actions = input.pending_actions
  /\ db = <<>>

\* list b keeps every entry of list a at its position with its id, type and data
KeepsActions(a, b) ==
  /\ Len(b) >= Len(a)
  /\ \A k \in 1..Len(a) :
       /\ b[k].id = a[k].id
       /\ b[k].type = a[k].type
       /\ b[k].data = a[k].data

\* every state an invocation holds keeps the actions of its input
KeepsInputActions ==
  /\ pc # "idle" => KeepsActions(input.pending_actions, currentState.pending_actions)
  /\ updatedState # NoState =>
       KeepsActions(input.pending_actions, updatedState.pending_actions)
  /\ (pc = "done" /\ ~rejected) =>
       KeepsActions(input.pending_actions, returned.pending_actions)

\* C32: no stage of any graph variant removes or reorders pending_actions:
\* no step shortens the list or changes the id, type or data at a position,
\* and the state of every stage and the returned state keep every entry of
\* the input at its position; only the status of an entry may differ.
C32_ActionsNeverRemoved ==
  [][/\ KeepsActions(currentState.pending_actions, currentState'.pending_actions)
     /\ KeepsInputActions']_vars

\* a linear run returned the carried pending action executed, with its id,
\* and the extracted one appended behind it
C32_Witness ==
  /\ pc = "done"
  /\ ~rejected
  /\ Ran("execute")
  /\ Len(input.pending_actions) = 1
  /\ input.pending_actions[1].status = PENDING
  /\ Len(returned.pending_actions) = 2
  /\ returned.pending_actions[1].id = input.pending_actions[1].id
  /\ returned.pending_actions[1].status = COMPLETED

\* this step is processActions returning { processed, succeeded, failed }:
\* every task of a non-empty batch settled and none rejected
ProcessActionsReturns ==
  /\ DOMAIN batch # {}
  /\ DOMAIN batch' = {}
  /\ \A id \in DOMAIN batch : batch[id].at # "rejected"

\* this step counts one action as succeeded
CountsSucceeded == counters'.succeeded = counters.succeeded + 1

\* C33: whenever processActions returns a result, processed (the size of the
\* batch) equals succeeded plus failed; an action is counted as succeeded
\* only by the step whose completed write finished, and every other action
\* of the batch is counted as failed.
C33_ProcessedIsSucceededPlusFailed ==
  [][/\ CountsSucceeded =>
          \E id \in DOMAIN batch :
             /\ batch[id].at = "handler"
             /\ batch'[id].at = "succeeded"
             /\ db'[id].status = COMPLETED
     /\ ProcessActionsReturns =>
          /\ Cardinality(DOMAIN batch) = counters.succeeded + counters.failed
          /\ counters.succeeded = Cardinality({id \in DOMAIN batch : batch[id].at = "succeeded"})
          /\ counters.failed = Cardinality({id \in DOMAIN batch : batch[id].at = "failed"})]_vars

\* a batch of one action returned after its handler ran, the write that
\* followed failed and the write of the catch block finished: processed 1,
\* succeeded 0, failed 1
C33_Witness ==
  /\ batches = 1
  /\ DOMAIN batch = {}
  /\ counters = [succeeded |-> 0, failed |-> 1]
  /\ \E id \in workerCalls : db[id].status = FAILED /\ db[id].error = StoreErrorMessage

\* the durable action id has the given status
HasStatus(id, statuses) == HasItem(db, id) /\ db[id].status \in statuses

\* C34: under a fair worker loop and a durable store whose calls succeed,
\* every durable action in status pending eventually is completed or failed,
\* and every action in status in_progress eventually is completed or failed
\* (the timeout ends a handler that never settles); a batch in which a
\* handler threw or timed out is followed by further batches.
C34_PendingEventuallySettles ==
  \A id \in CreatedIds :
     /\ HasStatus(id, {PENDING}) ~> HasStatus(id, {COMPLETED, FAILED})
     /\ HasStatus(id, {IN_PROGRESS}) ~> HasStatus(id, {COMPLETED, FAILED})

\* the handler of the first action never settled and the timeout failed it;
\* the action created later was completed by a later batch
C34_Witness ==
  /\ HasStatus(ActId(MaxPreload + 1), {FAILED})
  /\ db[ActId(MaxPreload + 1)].error = TimedOutMessage
  /\ HasStatus(ActId(MaxPreload + 2), {COMPLETED})
  /\ workerCalls = {ActId(MaxPreload + 1), ActId(MaxPreload + 2)}
  /\ DOMAIN batch = {}

\* this step is a set call that removes the keys `removed`
SetRemoves(removed) ==
  /\ embeddingsCache'.call.op = "set"
  /\ removed = Keys(embeddingsCache.cache) \ Keys(embeddingsCache'.cache)

\* C35: a set call removes an entry only when the cache is at capacity and
\* the key being set is not cached yet, and then it removes the oldest
\* entry and no other; setting a cached key removes no key.
C35_EvictsOnlyWhenNeeded ==
  [][\A removed \in SUBSET Keys(embeddingsCache.cache) :
       (SetRemoves(removed) /\ removed # {}) =>
          /\ Len(embeddingsCache.cache) >= embeddingsCache.maxSize
          /\ normalizeKey(embeddingsCache'.call.text) \notin Keys(embeddingsCache.cache)
          /\ removed = {embeddingsCache.cache[1].key}]_vars

\* C36: after any sequence of set, get, has and clear calls the number of
\* cached entries never exceeds maxSize.
C36_SizeAtMostMaxSize ==
  Len(embeddingsCache.cache) <= embeddingsCache.maxSize

\* C37: saveConversationState followed by loadConversationState of the same
\* id returns the conversationId, the context and the pending_actions that
\* were saved, and as many messages in the same order, each with the role
\* and the content of the message saved.
C37_SaveLoadRoundTrip ==
  Len(vout) = 1 =>
    /\ vout[1].conversationId = vin.conversationId
    /\ vout[1].context = vin.context
    /\ vout[1].pending_actions = vin.pending_actions
    /\ Len(vout[1].messages) = Len(vin.messages)
    /\ \A k \in DOMAIN vin.messages :
         /\ vout[1].messages[k].role = vin.messages[k].role
         /\ vout[1].messages[k].content = vin.messages[k].content

\* a state with a system and an ai message, a context chunk and a carried
\* action was saved and loaded again
C37_Witness ==
  /\ Len(vout) = 1
  /\ Len(vin.messages) = 2
  /\ vin.messages[1].role = "system"
  /\ vin.messages[2].role = "ai"
  /\ Len(vin.context) = 1
  /\ Len(vin.pending_actions) = 1
  /\ vout[1] = vin

\* this step is the connection check of caller c's initPinecone rejecting
InitPineconeFails(c) ==
  /\ callers[c].at = "listIndexes"
  /\ callers'[c].at = "failed"

\* this step is a call that finds the client set and skips the connection check
SkipsConnectionCheck(c) ==
  /\ callers[c].at = "start"
  /\ callers'[c].at = "Index"

\* C38: when the connection check of initPinecone rejects, the singleton is
\* unset afterwards, and a call skips the initialization and the check only
\* while no call is left with a rejected check.
C38_FailedInitLeavesSingletonUnset ==
  [][\A c \in DOMAIN callers :
       /\ InitPineconeFails(c) => cache'.pineconeInstance = 0
       /\ SkipsConnectionCheck(c) =>
            \A d \in DOMAIN callers : ~(callers[d].at = "failed" /\ cache.indexes = 0)]_vars

====
